---- MODULE Spec2Model ----
\* Verification model of the mooze-dealer payout state machine
\* (src/src/services/transactions.rs) and of the JSON-RPC link to the swap
\* venue (src/mooze-swap/src/json_rpc.rs).
EXTENDS Integers, Sequences, FiniteSets, TLC

\* ---------------------------------------------------------------------------
\* Bounds
\* ---------------------------------------------------------------------------
MaxDeliveries == 2      \* webhook messages sent to the transaction mailbox
MaxSweeps == 1          \* ticks of the pending-transaction processor
MaxFrames == 4          \* frames the RPC reader takes from the socket
MaxCalls == 2           \* call_method invocations on the JsonRpcClient
MaxDeposits == 1        \* NewTransaction requests sent to the transaction mailbox

\* ---------------------------------------------------------------------------
\* Transactions (rows of the `transactions` table)
\* ---------------------------------------------------------------------------
\* one row is followed; rows meet only in the queue, where the same row can
\* be entered more than once
Txs == {"t1"}

\* statuses a PSP webhook can carry, as forwarded by the pix service
\* (format!("eulen_{}", status)), and the statuses a row can hold
WebhookStatuses == {"eulen_depix_sent", "eulen_expired"}
Statuses == {"pending", "finished"} \cup WebhookStatuses

\* amounts are kept in units of 10^4 base units (10_u64.pow(8) / 10^4)
AssetPrecision == 10000
\* (1.0 * 100.0) as u64 for DEPIX
DepixPriceInCents == 100
amount_in_cents == [t \in Txs |-> 10000]
\* wallet balances the scan can report (units of 10^4 base units)
Balances == {100, 1000000}

\* task 0 is the pending-transaction processor, task i >= 1 handles message i
Sweeper == 0
Handlers == 1..MaxDeliveries
Tasks == {Sweeper} \cup Handlers
NoTask == -1

VARIABLES
    status,                 \* transactions.status column
    fee_recorded,           \* update_fee_collected has written the row
    balance,                \* wallet balance of the asset
    mailbox,                \* mpsc channel of TransactionServiceRequest
    deliveries,             \* messages sent so far
    spawned,                \* handler tasks spawned by Service::run
    task,                   \* position of every task
    work,                   \* transactions_to_process of the sweeper
    pending_transactions,   \* VecDeque<PendingTransaction>
    lock,                   \* holder of the pending_transactions mutex
    sweeps,                 \* ticks so far
    broadcasts,             \* successful finalize_and_broadcast per transaction
    swaps,                  \* SideswapRequest::Swap requests sent per transaction
    \* JsonRpcClient
    socketOpen,             \* the WebSocket stream still yields frames
    readerAlive,            \* the reader task is running
    writerAlive,            \* the writer task is running (rx not dropped)
    outq,                   \* unbounded channel caller -> writer task
    wire,                   \* request ids written to the socket, in order
    pending_requests,       \* HashMap<String, oneshot::Sender<Value>>
    slot,                   \* value sent on each call's oneshot channel
    call,                   \* position of every call_method invocation
    frames,                 \* frames read so far
    notifications,          \* Vec<Value> of queued notifications
    consumer,               \* position of wait_for_notification's caller
    handed,                 \* notifications returned by wait_for_notification
    \* the amounts of one payout
    payout,                 \* locals of continue_with_transaction / finish_transaction
    \* deposit requests
    users,                  \* ids of the users table
    transactions,           \* rows inserted into the transactions table
    pix_requests,           \* PixServiceRequest::Deposit messages sent
    pix_transactions,       \* rows of the pix_transactions table
    user_mailbox,           \* UserRequest::CreateUser messages not yet handled
    deposit,                \* position of every new_transaction call
    started,                \* NewTransaction requests received so far
    user_details,           \* answer of the last GetUserDetails request
    \* PriceRepository
    price_cache,            \* PriceCache behind the RwLock
    price_tick,             \* position of the price fetch task in its tick
    price_ticks,            \* ticks of the 60 s interval so far
    price_read,             \* answer of the last get_asset_price_with_spread
    \* LiquidityHandler
    liquidity_tasks,        \* handler tasks of the LiquidityService, by message
    sideswap_channel,       \* SideswapRequest::Swap messages sent
    \* quote notifications of the swap handlers
    quote_tasks,            \* handling of every delivered quote notification
    swap_calls,             \* calls made to the venue and to the wallet
    \* LiquidRepository
    wallet_tasks,           \* handler tasks of the LiquidService, by request
    wallet_utxos,           \* unspent outputs in the Wollet behind the RwLock
    \* SideswapClient
    client_calls,           \* market calls of one task, with reply and outcome
    \* the venue connection of a swap handler
    session,                \* login state and requests sent on the connection
    swap_main               \* position of main of mooze-swap and the holders of
                            \* the notification channel's senders

txVars == <<status, fee_recorded, balance, mailbox, deliveries, spawned, task, work, pending_transactions, lock, sweeps, broadcasts, swaps>>

rpcVars == <<socketOpen, readerAlive, writerAlive, outq, wire,
             pending_requests, slot, call, frames, notifications, consumer,
             handed>>

payVars == <<payout>>

depVars == <<users, transactions, pix_requests, pix_transactions,
             user_mailbox, deposit, started, user_details>>

priceVars == <<price_cache, price_tick, price_ticks, price_read>>

liquidityVars == <<liquidity_tasks, sideswap_channel>>

swapVars == <<quote_tasks, swap_calls>>

walletVars == <<wallet_tasks, wallet_utxos>>

clientVars == <<client_calls>>

sessionVars == <<session>>
mainVars == <<swap_main>>

vars == <<txVars, rpcVars, payVars, depVars, priceVars, liquidityVars, swapVars, walletVars, clientVars, sessionVars, mainVars>>

\* ---------------------------------------------------------------------------
\* Pure helpers
\* ---------------------------------------------------------------------------
\* check_asset_balance: asset_amount = amount_in_cents * 10^8 / price
AssetAmount(t) == (amount_in_cents[t] * AssetPrecision) \div DepixPriceInCents

\* check_asset_balance: Ok(balance >= total_needed)
HasSufficientBalance(t, bal) == bal >= AssetAmount(t)

Count(q, t) == Cardinality({i \in DOMAIN q : q[i].transaction = t})
InQueue(t) == Count(pending_transactions, t) > 0

\* per task: position, transaction, status carried by the message, outcome,
\* and what the task has done for its current transaction: entries pushed on
\* the queue, swap requests sent, wallet build/sign/finalize requests sent,
\* and whether its inventory check saw a balance below the required amount
IdleTask == [pc |-> "none", tx |-> "t1", st |-> "eulen_expired",
             result |-> "none", err |-> "none", enq |-> 0, swp |-> 0, wal |-> 0,
             low |-> FALSE]

\* ---------------------------------------------------------------------------
\* Initial state
\* ---------------------------------------------------------------------------
TxInit ==
    /\ status = [t \in Txs |-> "pending"]
    /\ fee_recorded = [t \in Txs |-> FALSE]
    /\ balance = 1000000
    /\ mailbox = <<>>
    /\ deliveries = 0
    /\ spawned = 0
    /\ task = [k \in Tasks |-> IF k = Sweeper THEN [IdleTask EXCEPT !.pc = "idle"]
                                               ELSE IdleTask]
    /\ work = <<>>
    /\ pending_transactions = <<>>
    /\ lock = NoTask
    /\ sweeps = 0
    /\ broadcasts = [t \in Txs |-> 0]
    /\ swaps = [t \in Txs |-> 0]

\* ---------------------------------------------------------------------------
\* JsonRpcClient: calls, ids and frames
\* ---------------------------------------------------------------------------
Calls == 1..MaxCalls
\* Uuid::new_v4().to_string(): a fresh id per call
Uuid(c) == 100 + c
\* an id no call has generated
UnknownId == 0
NoFrame == [id |-> -1, seq |-> 0]

\* JsonRpcClient::new, lines 29-34 and 96-101
RpcInit ==
    /\ socketOpen = TRUE
    /\ readerAlive = TRUE
    /\ writerAlive = TRUE
    /\ outq = <<>>
    /\ wire = <<>>
    /\ pending_requests = <<>>
    /\ slot = [c \in Calls |-> NoFrame]
    /\ call = [c \in Calls |-> [pc |-> "idle", got |-> NoFrame, error |-> "none"]]
    /\ frames = 0
    /\ notifications = <<>>
    /\ consumer = "check"
    /\ handed = <<>>

\* ---------------------------------------------------------------------------
\* One payout, followed through its amounts
\* ---------------------------------------------------------------------------
\* models/transactions.rs: address of the Transaction row
UserAddress == "user_addr"
\* referrals.payment_address of the referrer
ReferrerAddress == "referrer_addr"
NoAddress == "none"

\* no transaction loaded; amounts are u64 values (decimal digits, see below)
IdlePayout == [pc |-> "idle", amount_in_cents |-> 0, asset |-> "DEPIX",
               asset_price_in_cents |-> 0, asset_amount |-> <<>>,
               referrer |-> "none", referral_addr |-> NoAddress,
               fee_in_asset |-> <<>>,
               fee_collected |-> 0, referral_bonus |-> <<>>,
               amount_to_send_user |-> <<>>, wrapped |-> FALSE,
               recipients |-> <<>>, builds |-> 0, signs |-> 0,
               broadcasts |-> 0, status |-> "eulen_depix_sent",
               hint |-> [sent |-> FALSE, sell_asset |-> "none",
                         receive_asset |-> "none",
                         amount |-> [negative |-> FALSE, magnitude |-> <<>>],
                         overflow |-> FALSE]]

PayInit == payout = IdlePayout

\* ---------------------------------------------------------------------------
\* Deposit requests: users and transaction rows
\* ---------------------------------------------------------------------------
\* users with a row in the users table, and a user id without one
KnownUsers == 0..4
MissingUser == 9
\* insert_user: Uuid::new_v4(), the k-th id it generates
NewUserId(k) == 100 + k

Deposits == 1..MaxDeposits

Row(u, a, st, today) ==
    [user_id |-> u, amount_in_cents |-> a, status |-> st, today |-> today,
     by |-> 0]

\* rows left by earlier requests: user 0 has nothing at eulen_depix_sent,
\* users 1 and 2 have one and two such rows, user 3 has three of today and
\* user 4 three of an earlier day, and one of today that was paid out
StoredTransactions ==
    << Row(0, 25000, "finished", TRUE), Row(0, 25000, "pending", TRUE),
       Row(1, 25000, "eulen_depix_sent", TRUE),
       Row(2, 25000, "eulen_depix_sent", TRUE),
       Row(2, 75000, "eulen_depix_sent", TRUE),
       Row(3, 25000, "eulen_depix_sent", TRUE),
       Row(3, 25000, "eulen_depix_sent", TRUE),
       Row(3, 25000, "eulen_depix_sent", TRUE),
       Row(4, 25000, "eulen_depix_sent", FALSE),
       Row(4, 25000, "eulen_depix_sent", FALSE),
       Row(4, 25000, "eulen_depix_sent", FALSE),
       Row(4, 500000, "finished", TRUE) >>

IdleDeposit == [pc |-> "idle", user_id |-> 0, amount_in_cents |-> 0,
                user_found |-> FALSE, transaction_count |-> 0,
                daily_spending |-> 0, error |-> "none", result |-> "none"]

DepInit ==
    /\ users = KnownUsers
    /\ transactions = <<>>
    /\ pix_requests = <<>>
    /\ pix_transactions = <<>>
    /\ user_mailbox = <<>>
    /\ deposit = [r \in Deposits |-> IdleDeposit]
    /\ started = 0
    /\ user_details = [id |-> -1, transaction_count |-> 0,
                       daily_spending |-> <<>>,
                       allowed_spending |-> [negative |-> FALSE,
                                             magnitude |-> <<>>]]

\* Option<f64>::None of a PriceCache field; prices are positive
None == -1

\* the price fetch task before its first tick
IdleTick == [pc |-> "idle",
             coingecko |-> [ok |-> TRUE, bitcoin |-> None, usdt |-> None],
             binance |-> [ok |-> TRUE, bitcoin |-> None, usdt |-> None],
             before |-> [bitcoin |-> None, usdt |-> None], result |-> "none"]

\* the state after construction: the stores of the dealer, then the price
\* cache (PriceRepository::new), the mailboxes of the liquidity and swap
\* handlers, the wallet after its first scan (LiquidRepository::new, two
\* unspent outputs), a SideswapClient that has made no call, and no
\* connection to the venue yet
Init ==
    /\ TxInit /\ RpcInit /\ PayInit /\ DepInit
    /\ price_cache = [bitcoin |-> None, usdt |-> None]
    /\ price_tick = IdleTick
    /\ price_ticks = 0
    /\ price_read = [asset |-> "none", ok |-> FALSE, hundredths |-> 0]
    /\ liquidity_tasks = <<>>
    /\ sideswap_channel = <<>>
    /\ quote_tasks = <<>>
    /\ swap_calls = <<>>
    /\ wallet_tasks = <<>>
    /\ wallet_utxos = {1, 2}
    /\ client_calls = <<>>
    /\ session = [pc |-> "closed", handler |-> "none", login |-> "none",
                  sent |-> <<>>]
    /\ swap_main = [pc |-> "start", senders |-> {}]

\* ---------------------------------------------------------------------------
\* Environment
\* ---------------------------------------------------------------------------
\* the wallet scan observes a new balance
WalletScan(b) ==
    /\ b \in Balances
    /\ b # balance
    /\ balance' = b
    /\ UNCHANGED <<status, fee_recorded, mailbox, deliveries, spawned, task, work, pending_transactions, lock, sweeps, broadcasts, swaps>>
    /\ UNCHANGED <<rpcVars, payVars, depVars, priceVars, liquidityVars, swapVars, walletVars, clientVars, sessionVars, mainVars>>

\* PixRequestHandler::update_deposit_status: forward the PSP status
UpdateDepositStatus(t, s) ==
    /\ deliveries < MaxDeliveries
    /\ deliveries' = deliveries + 1
    /\ mailbox' = Append(mailbox, [transaction_id |-> t, status |-> s])
    /\ UNCHANGED <<status, fee_recorded, balance, spawned, task, work, pending_transactions, lock, sweeps, broadcasts, swaps>>
    /\ UNCHANGED <<rpcVars, payVars, depVars, priceVars, liquidityVars, swapVars, walletVars, clientVars, sessionVars, mainVars>>

\* Service::run: receive the next request and spawn its handler
Run ==
    /\ mailbox # <<>>
    /\ spawned' = spawned + 1
    /\ mailbox' = Tail(mailbox)
    /\ task' = [task EXCEPT ![spawned + 1] =
                   [IdleTask EXCEPT !.pc = "update",
                                    !.tx = Head(mailbox).transaction_id,
                                    !.st = Head(mailbox).status]]
    /\ UNCHANGED <<status, fee_recorded, balance, deliveries, work, pending_transactions, lock, sweeps, broadcasts, swaps>>
    /\ UNCHANGED <<rpcVars, payVars, depVars, priceVars, liquidityVars, swapVars, walletVars, clientVars, sessionVars, mainVars>>

\* ---------------------------------------------------------------------------
\* Payout: update_transaction_status / finish_transaction, run by a handler
\* task (webhook) or by the pending-transaction processor
\* ---------------------------------------------------------------------------
\* repositories/transactions.rs update_transaction_status:
\* UPDATE transactions SET status = $1 WHERE id = $2
StoredStatus(old, new) == new

\* variant: InsufficientBalance is surfaced as an error like any other
WebhookResult_Strict(err) ==
    IF err = "none" THEN "Ok" ELSE "Err"

\* update_transaction_status: outcome reported for an error of finish_transaction
WebhookResult(err) ==
    IF err \in {"none", "InsufficientBalance"} THEN "Ok" ELSE "Err"

\* continue_with_transaction: if let Ok(has) = check { if !has { enqueue } }
MustEnqueue(ok, t, bal) == ok /\ ~HasSufficientBalance(t, bal)

\* variant: the wallet's answer is not looked at
AfterWallet_Ignore(ok, next) == next

\* finish_transaction: a failed wallet step returns with `?`
AfterWallet(ok, next) == IF ok THEN next ELSE "fail"

\* the sweeper moves to the next element of transactions_to_process
SweeperNext(rest, res) ==
    IF rest = <<>>
    THEN [IdleTask EXCEPT !.pc = "idle", !.result = res]
    ELSE [IdleTask EXCEPT !.pc = "check", !.tx = Head(rest).transaction,
                          !.result = res]

\* variant: the sweeper puts the entry back whatever finish_transaction returned
Return_Requeue(k, tk, err) ==
    IF k = Sweeper
    THEN /\ task' = [task EXCEPT ![k] = [tk EXCEPT !.pc = "requeue", !.err = err]]
         /\ UNCHANGED work
    ELSE /\ task' = [task EXCEPT ![k] = [tk EXCEPT !.pc = "done", !.err = err,
                                                  !.result = WebhookResult(err)]]
         /\ UNCHANGED work

\* finish_transaction returns to its caller with error err ("none" = Ok(()))
Return(k, tk, err) ==
    IF k = Sweeper
    THEN IF err = "none"
         THEN /\ task' = [task EXCEPT ![k] = SweeperNext(Tail(work), "Ok")]
              /\ work' = Tail(work)
         ELSE /\ task' = [task EXCEPT ![k] = [tk EXCEPT !.pc = "requeue", !.err = err]]
              /\ UNCHANGED work
    ELSE /\ task' = [task EXCEPT ![k] = [tk EXCEPT !.pc = "done", !.err = err,
                                                  !.result = WebhookResult(err)]]
         /\ UNCHANGED work

\* variant: every status starts the payout
StartsPayout_Always(s) == TRUE

\* update_transaction_status, line 342: if status == "eulen_depix_sent"
StartsPayout(s) == s = "eulen_depix_sent"

\* update_transaction_status, lines 334-363: write the status, reload the row
UpdateTransactionStatus(k) ==
    /\ k \in Handlers
    /\ task[k].pc = "update"
    /\ status' = [status EXCEPT ![task[k].tx] = StoredStatus(@, task[k].st)]
    /\ task' = [task EXCEPT ![k] =
                   IF StartsPayout(task[k].st)
                   THEN [@ EXCEPT !.pc = "cwt_check"]
                   ELSE [@ EXCEPT !.pc = "done", !.result = "Ok"]]
    /\ UNCHANGED <<fee_recorded, balance, mailbox, deliveries, spawned, work, pending_transactions, lock, sweeps, broadcasts, swaps>>
    /\ UNCHANGED <<rpcVars, payVars, depVars, priceVars, liquidityVars, swapVars, walletVars, clientVars, sessionVars, mainVars>>

\* continue_with_transaction, lines 515-516: the inventory check; ok is the
\* outcome of check_asset_balance (the wallet's GetAssetBalance may fail)
CheckAssetBalance(k) ==
    /\ task[k].pc = "cwt_check"
    /\ \E ok \in BOOLEAN :
          task' = [task EXCEPT ![k].pc =
                      IF MustEnqueue(ok, task[k].tx, balance) THEN "enqueue"
                                                              ELSE "build",
                                   ![k].low =
                      ok /\ ~HasSufficientBalance(task[k].tx, balance)]
    /\ UNCHANGED <<status, fee_recorded, balance, mailbox, deliveries, spawned, work, pending_transactions, lock, sweeps, broadcasts, swaps>>
    /\ UNCHANGED <<rpcVars, payVars, depVars, priceVars, liquidityVars, swapVars, walletVars, clientVars, sessionVars, mainVars>>

\* continue_with_transaction, lines 523-528: lock the queue and push
Enqueue(k) ==
    /\ task[k].pc = "enqueue"
    /\ lock = NoTask
    /\ lock' = k
    /\ pending_transactions' = Append(pending_transactions,
                                      [transaction |-> task[k].tx, attempts |-> 0])
    /\ task' = [task EXCEPT ![k].pc = "swap", ![k].enq = @ + 1]
    /\ UNCHANGED <<status, fee_recorded, balance, mailbox, deliveries, spawned, work, sweeps, broadcasts, swaps>>
    /\ UNCHANGED <<rpcVars, payVars, depVars, priceVars, liquidityVars, swapVars, walletVars, clientVars, sessionVars, mainVars>>

\* continue_with_transaction, lines 530-543: send the swap request (the queue
\* guard is still alive), return Err(Internal("InsufficientBalance"))
SendSwap(k) ==
    /\ task[k].pc = "swap"
    /\ lock = k
    /\ lock' = NoTask
    /\ swaps' = [swaps EXCEPT ![task[k].tx] = @ + 1]
    /\ Return(k, [task[k] EXCEPT !.swp = @ + 1], "InsufficientBalance")
    /\ UNCHANGED <<status, fee_recorded, balance, mailbox, deliveries, spawned, pending_transactions, sweeps, broadcasts>>
    /\ UNCHANGED <<rpcVars, payVars, depVars, priceVars, liquidityVars, swapVars, walletVars, clientVars, sessionVars, mainVars>>

\* continue_with_transaction, lines 547-609: price, referral, fee, persist
\* fee_collected, then BuildTransaction; ok is the wallet's answer
BuildTransaction(k) ==
    /\ task[k].pc = "build"
    /\ fee_recorded' = [fee_recorded EXCEPT ![task[k].tx] = TRUE]
    /\ \E ok \in BOOLEAN :
          LET tk == [task[k] EXCEPT !.wal = @ + 1] IN
          IF AfterWallet(ok, "sign") = "fail"
          THEN Return(k, tk, "wallet")
          ELSE /\ task' = [task EXCEPT ![k] = [tk EXCEPT !.pc = "sign"]]
               /\ UNCHANGED work
    /\ UNCHANGED <<status, balance, mailbox, deliveries, spawned, pending_transactions, lock, sweeps, broadcasts, swaps>>
    /\ UNCHANGED <<rpcVars, payVars, depVars, priceVars, liquidityVars, swapVars, walletVars, clientVars, sessionVars, mainVars>>

\* finish_transaction, lines 410-413: sign_transaction
SignTransaction(k) ==
    /\ task[k].pc = "sign"
    /\ \E ok \in BOOLEAN :
          LET tk == [task[k] EXCEPT !.wal = @ + 1] IN
          IF AfterWallet(ok, "finalize") = "fail"
          THEN Return(k, tk, "wallet")
          ELSE /\ task' = [task EXCEPT ![k] = [tk EXCEPT !.pc = "finalize"]]
               /\ UNCHANGED work
    /\ UNCHANGED <<status, fee_recorded, balance, mailbox, deliveries, spawned, pending_transactions, lock, sweeps, broadcasts, swaps>>
    /\ UNCHANGED <<rpcVars, payVars, depVars, priceVars, liquidityVars, swapVars, walletVars, clientVars, sessionVars, mainVars>>

\* finish_transaction, line 414: finalize_transaction; on Ok the wallet has
\* broadcast the transaction
FinalizeTransaction(k) ==
    /\ task[k].pc = "finalize"
    /\ \E ok \in BOOLEAN :
          LET tk == [task[k] EXCEPT !.wal = @ + 1] IN
          /\ broadcasts' = IF ok THEN [broadcasts EXCEPT ![task[k].tx] = @ + 1]
                                 ELSE broadcasts
          /\ IF AfterWallet(ok, "finish") = "fail"
             THEN Return(k, tk, "wallet")
             ELSE /\ task' = [task EXCEPT ![k] = [tk EXCEPT !.pc = "finish"]]
                  /\ UNCHANGED work
    /\ UNCHANGED <<status, fee_recorded, balance, mailbox, deliveries, spawned, pending_transactions, lock, sweeps, swaps>>
    /\ UNCHANGED <<rpcVars, payVars, depVars, priceVars, liquidityVars, swapVars, walletVars, clientVars, sessionVars, mainVars>>

\* finish_transaction, lines 416-423: write "finished", return Ok(())
Finish(k) ==
    /\ task[k].pc = "finish"
    /\ status' = [status EXCEPT ![task[k].tx] = StoredStatus(@, "finished")]
    /\ Return(k, task[k], "none")
    /\ UNCHANGED <<fee_recorded, balance, mailbox, deliveries, spawned, pending_transactions, lock, sweeps, broadcasts, swaps>>
    /\ UNCHANGED <<rpcVars, payVars, depVars, priceVars, liquidityVars, swapVars, walletVars, clientVars, sessionVars, mainVars>>

\* ---------------------------------------------------------------------------
\* The pending-transaction processor
\* ---------------------------------------------------------------------------
\* process_pending_transactions, lines 101-116: lock, return when empty, else
\* drain the queue head-first into the work list and release the lock
Tick ==
    /\ task[Sweeper].pc = "idle"
    /\ sweeps < MaxSweeps
    /\ lock = NoTask
    /\ sweeps' = sweeps + 1
    /\ IF pending_transactions = <<>>
       THEN UNCHANGED <<task, work, pending_transactions>>
       ELSE /\ work' = pending_transactions
            /\ pending_transactions' = <<>>
            /\ task' = [task EXCEPT ![Sweeper] =
                           SweeperNext(pending_transactions, "none")]
    /\ UNCHANGED <<status, fee_recorded, balance, mailbox, deliveries, spawned, lock, broadcasts, swaps>>
    /\ UNCHANGED <<rpcVars, payVars, depVars, priceVars, liquidityVars, swapVars, walletVars, clientVars, sessionVars, mainVars>>

\* process_pending_transactions, line 126: check_asset_balance of the entry
SweepCheck ==
    /\ task[Sweeper].pc = "check"
    /\ \E ok \in BOOLEAN :
          task' = [task EXCEPT ![Sweeper].pc =
                      IF ok /\ HasSufficientBalance(task[Sweeper].tx, balance)
                      THEN "cwt_check" ELSE "requeue"]
    /\ UNCHANGED <<status, fee_recorded, balance, mailbox, deliveries, spawned, work, pending_transactions, lock, sweeps, broadcasts, swaps>>
    /\ UNCHANGED <<rpcVars, payVars, depVars, priceVars, liquidityVars, swapVars, walletVars, clientVars, sessionVars, mainVars>>

\* process_pending_transactions, lines 139-177: put the entry back at the tail
Requeue ==
    /\ task[Sweeper].pc = "requeue"
    /\ lock = NoTask
    /\ pending_transactions' = Append(pending_transactions,
                                      [transaction |-> Head(work).transaction,
                                       attempts |-> Head(work).attempts + 1])
    /\ work' = Tail(work)
    /\ task' = [task EXCEPT ![Sweeper] = SweeperNext(Tail(work), "Err")]
    /\ UNCHANGED <<status, fee_recorded, balance, mailbox, deliveries, spawned, lock, sweeps, broadcasts, swaps>>
    /\ UNCHANGED <<rpcVars, payVars, depVars, priceVars, liquidityVars, swapVars, walletVars, clientVars, sessionVars, mainVars>>

\* ---------------------------------------------------------------------------
\* Specification of the payout machine
\* ---------------------------------------------------------------------------
Next ==
    \/ \E b \in Balances : WalletScan(b)
    \/ \E t \in Txs, s \in WebhookStatuses : UpdateDepositStatus(t, s)
    \/ Run
    \/ \E k \in Handlers : UpdateTransactionStatus(k)
    \/ \E k \in Tasks : CheckAssetBalance(k)
    \/ \E k \in Tasks : Enqueue(k)
    \/ \E k \in Tasks : SendSwap(k)
    \/ \E k \in Tasks : BuildTransaction(k)
    \/ \E k \in Tasks : SignTransaction(k)
    \/ \E k \in Tasks : FinalizeTransaction(k)
    \/ \E k \in Tasks : Finish(k)
    \/ Tick
    \/ SweepCheck
    \/ Requeue

Spec == Init /\ [][Next]_vars

\* ---------------------------------------------------------------------------
\* JsonRpcClient (src/mooze-swap/src/json_rpc.rs)
\* ---------------------------------------------------------------------------
\* pending_requests is a function id -> call whose oneshot sender is stored
MapInsert(m, k, v) == [x \in DOMAIN m \cup {k} |-> IF x = k THEN v ELSE m[x]]
MapRemove(m, k) == [x \in DOMAIN m \ {k} |-> m[x]]

\* variant: the reply is given to the oldest registered slot
RemovedKeys_Oldest(m, id) ==
    IF DOMAIN m = {} THEN {}
    ELSE {CHOOSE k \in DOMAIN m : \A x \in DOMAIN m : k <= x}

\* reader task, line 81: pending_requests.remove(id) -- the keys removed
RemovedKeys(m, id) == IF id \in DOMAIN m THEN {id} ELSE {}

\* Vec::pop: the element wait_for_notification takes, and what is left
Pop(q) == [value |-> q[Len(q)], rest |-> SubSeq(q, 1, Len(q) - 1)]

\* call_method, lines 109-119: generate the id, register the reply slot
CallInsert(c) ==
    /\ call[c].pc = "idle"
    /\ pending_requests' = MapInsert(pending_requests, Uuid(c), c)
    /\ call' = [call EXCEPT ![c].pc = "inserted"]
    /\ UNCHANGED <<socketOpen, readerAlive, writerAlive, outq, wire, slot,
                   frames, notifications, consumer, handed>>
    /\ UNCHANGED <<txVars, payVars, depVars, priceVars, liquidityVars, swapVars, walletVars, clientVars, sessionVars, mainVars>>

\* call_method, line 120: self.sender.send(msg)? fails once rx is dropped
CallSend(c) ==
    /\ call[c].pc = "inserted"
    /\ IF writerAlive
       THEN /\ outq' = Append(outq, Uuid(c))
            /\ call' = [call EXCEPT ![c].pc = "waiting"]
       ELSE /\ call' = [call EXCEPT ![c].pc = "err", ![c].error = "SendFailed"]
            /\ UNCHANGED outq
    /\ UNCHANGED <<socketOpen, readerAlive, writerAlive, wire,
                   pending_requests, slot, frames, notifications, consumer,
                   handed>>
    /\ UNCHANGED <<txVars, payVars, depVars, priceVars, liquidityVars, swapVars, walletVars, clientVars, sessionVars, mainVars>>

\* call_method, lines 122-123: resp_rx.await completes with the value sent
CallReceive(c) ==
    /\ call[c].pc = "waiting"
    /\ slot[c] # NoFrame
    /\ call' = [call EXCEPT ![c].pc = "ok", ![c].got = slot[c]]
    /\ UNCHANGED <<socketOpen, readerAlive, writerAlive, outq, wire,
                   pending_requests, slot, frames, notifications, consumer,
                   handed>>
    /\ UNCHANGED <<txVars, payVars, depVars, priceVars, liquidityVars, swapVars, walletVars, clientVars, sessionVars, mainVars>>

\* writer task, lines 37-44: forward one request, break on a send error
WriterSend ==
    /\ writerAlive
    /\ outq # <<>>
    /\ IF socketOpen
       THEN /\ wire' = Append(wire, Head(outq))
            /\ outq' = Tail(outq)
            /\ UNCHANGED writerAlive
       ELSE /\ writerAlive' = FALSE
            /\ outq' = <<>>
            /\ UNCHANGED wire
    /\ UNCHANGED <<socketOpen, readerAlive, pending_requests, slot, call,
                   frames, notifications, consumer, handed>>
    /\ UNCHANGED <<txVars, payVars, depVars, priceVars, liquidityVars, swapVars, walletVars, clientVars, sessionVars, mainVars>>

\* reader task, lines 77-86: a frame with an id string
ReadResponse(id) ==
    /\ readerAlive /\ socketOpen
    /\ frames < MaxFrames
    /\ id \in {wire[i] : i \in DOMAIN wire} \cup {UnknownId}
    /\ frames' = frames + 1
    /\ LET keys == RemovedKeys(pending_requests, id) IN
       IF keys = {}
       THEN UNCHANGED <<pending_requests, slot>>
       ELSE \E k \in keys :
              /\ pending_requests' = MapRemove(pending_requests, k)
              /\ slot' = [slot EXCEPT ![pending_requests[k]] =
                             [id |-> id, seq |-> frames + 1]]
    /\ UNCHANGED <<socketOpen, readerAlive, writerAlive, outq, wire, call,
                   notifications, consumer, handed>>
    /\ UNCHANGED <<txVars, payVars, depVars, priceVars, liquidityVars, swapVars, walletVars, clientVars, sessionVars, mainVars>>

\* reader task, lines 87-91: a frame without id is queued, waiters are woken
ReadNotification ==
    /\ readerAlive /\ socketOpen
    /\ frames < MaxFrames
    /\ frames' = frames + 1
    /\ notifications' = Append(notifications, frames + 1)
    /\ consumer' = IF consumer = "waiting" THEN "check" ELSE consumer
    /\ UNCHANGED <<socketOpen, readerAlive, writerAlive, outq, wire,
                   pending_requests, slot, call, handed>>
    /\ UNCHANGED <<txVars, payVars, depVars, priceVars, liquidityVars, swapVars, walletVars, clientVars, sessionVars, mainVars>>

\* reader task, lines 53-75: read errors, non-text frames and unparsable
\* text are skipped
ReadIgnored ==
    /\ readerAlive /\ socketOpen
    /\ frames < MaxFrames
    /\ frames' = frames + 1
    /\ UNCHANGED <<socketOpen, readerAlive, writerAlive, outq, wire,
                   pending_requests, slot, call, notifications, consumer,
                   handed>>
    /\ UNCHANGED <<txVars, payVars, depVars, priceVars, liquidityVars, swapVars, walletVars, clientVars, sessionVars, mainVars>>

\* the venue or the network closes the connection
SocketClose ==
    /\ socketOpen
    /\ socketOpen' = FALSE
    /\ UNCHANGED <<readerAlive, writerAlive, outq, wire, pending_requests,
                   slot, call, frames, notifications, consumer, handed>>
    /\ UNCHANGED <<txVars, payVars, depVars, priceVars, liquidityVars, swapVars, walletVars, clientVars, sessionVars, mainVars>>

\* reader task, line 52 and 93-94: read.next() yields None, the task ends
ReaderExit ==
    /\ readerAlive
    /\ ~socketOpen
    /\ readerAlive' = FALSE
    /\ UNCHANGED <<socketOpen, writerAlive, outq, wire, pending_requests,
                   slot, call, frames, notifications, consumer, handed>>
    /\ UNCHANGED <<txVars, payVars, depVars, priceVars, liquidityVars, swapVars, walletVars, clientVars, sessionVars, mainVars>>

\* wait_for_notification, lines 128-133: lock the queue and pop
ConsumerCheck ==
    /\ consumer = "check"
    /\ IF notifications # <<>>
       THEN /\ handed' = Append(handed, Pop(notifications).value)
            /\ notifications' = Pop(notifications).rest
            /\ UNCHANGED consumer
       ELSE /\ consumer' = "gap"
            /\ UNCHANGED <<handed, notifications>>
    /\ UNCHANGED <<socketOpen, readerAlive, writerAlive, outq, wire,
                   pending_requests, slot, call, frames>>
    /\ UNCHANGED <<txVars, payVars, depVars, priceVars, liquidityVars, swapVars, walletVars, clientVars, sessionVars, mainVars>>

\* wait_for_notification, line 134: self.notify.notified().await
ConsumerWait ==
    /\ consumer = "gap"
    /\ consumer' = "waiting"
    /\ UNCHANGED <<socketOpen, readerAlive, writerAlive, outq, wire,
                   pending_requests, slot, call, frames, notifications,
                   handed>>
    /\ UNCHANGED <<txVars, payVars, depVars, priceVars, liquidityVars, swapVars, walletVars, clientVars, sessionVars, mainVars>>

NextRpc ==
    \/ \E c \in Calls : CallInsert(c)
    \/ \E c \in Calls : CallSend(c)
    \/ \E c \in Calls : CallReceive(c)
    \/ WriterSend
    \/ ReadIgnored
    \/ \E id \in {Uuid(c) : c \in Calls} \cup {UnknownId} : ReadResponse(id)
    \/ ReadNotification
    \/ SocketClose
    \/ ReaderExit
    \/ ConsumerCheck
    \/ ConsumerWait

SpecRpc == Init /\ [][NextRpc]_vars

\* the caller of wait_for_notification is a spawned task that the runtime
\* keeps scheduling: its two steps are taken whenever they stay possible.
\* Nothing is assumed of the venue, which may send further frames or none
SpecRpcLive ==
    Init /\ [][NextRpc]_vars /\ WF_vars(ConsumerCheck) /\ WF_vars(ConsumerWait)

\* ---------------------------------------------------------------------------
\* u64 amounts (services/transactions.rs, calculate_fee_amount and
\* continue_with_transaction). The products of the fee ladder reach
\* 1.75 * 10^16, so a value is kept as its decimal digits, least significant
\* first and without leading zeros; <<>> is zero.
\* ---------------------------------------------------------------------------
RECURSIVE U64(_)
\* `as u64` of a non-negative i32
U64(n) == IF n = 0 THEN <<>> ELSE <<n % 10>> \o U64(n \div 10)

RECURSIVE MulAdd(_, _, _)
\* a * m + c for a multiplier m of at most 10^8
MulAdd(a, m, c) ==
    IF a = <<>>
    THEN U64(c)
    ELSE LET v == Head(a) * m + c
         IN  <<v % 10>> \o MulAdd(Tail(a), m, v \div 10)

\* u64 `*`
U64Mul(a, m) == IF m = 0 THEN <<>> ELSE MulAdd(a, m, 0)

RECURSIVE Strip(_)
\* drop the leading zeros
Strip(a) ==
    IF a = <<>> THEN a
    ELSE IF a[Len(a)] # 0 THEN a
    ELSE Strip(SubSeq(a, 1, Len(a) - 1))

RECURSIVE DivRem(_, _)
\* long division by a divisor d of at most 2 * 10^8
DivRem(a, d) ==
    IF a = <<>>
    THEN [q |-> <<>>, r |-> 0]
    ELSE LET hi == DivRem(Tail(a), d)
             v == hi.r * 10 + Head(a)
         IN  [q |-> <<v \div d>> \o hi.q, r |-> v % d]

\* u64 `/`: truncating division
U64Div(a, d) == Strip(DivRem(a, d).q)

Digit(a, i) == IF i <= Len(a) THEN a[i] ELSE 0

RECURSIVE LessFrom(_, _, _)
\* compare two values of equal length from digit i downwards
LessFrom(a, b, i) ==
    IF i = 0 THEN FALSE
    ELSE IF a[i] # b[i] THEN a[i] < b[i]
    ELSE LessFrom(a, b, i - 1)

\* u64 `<`
U64Less(a, b) ==
    IF Len(a) # Len(b) THEN Len(a) < Len(b) ELSE LessFrom(a, b, Len(a))

RECURSIVE AddFrom(_, _, _, _)
AddFrom(a, b, i, c) ==
    IF i > Len(a) /\ i > Len(b)
    THEN U64(c)
    ELSE LET v == Digit(a, i) + Digit(b, i) + c
         IN  <<v % 10>> \o AddFrom(a, b, i + 1, v \div 10)

\* sum of two amounts as a natural number
Plus(a, b) == AddFrom(a, b, 1, 0)

RECURSIVE SubFrom(_, _, _, _)
SubFrom(a, b, i, borrow) ==
    IF i > Len(a)
    THEN <<>>
    ELSE LET v == Digit(a, i) - Digit(b, i) - borrow
         IN  <<IF v < 0 THEN v + 10 ELSE v>> \o
             SubFrom(a, b, i + 1, IF v < 0 THEN 1 ELSE 0)

\* difference of two amounts, a >= b
Minus(a, b) == Strip(SubFrom(a, b, 1, 0))

\* 2^64
TwoTo64 == U64Mul(U64Mul(U64Mul(U64(65536), 65536), 65536), 65536)

\* u64 `-` in a build without overflow checks: the difference modulo 2^64
WrappingSub(a, b) ==
    IF U64Less(a, b) THEN Minus(Plus(a, TwoTo64), b) ELSE Minus(a, b)

RECURSIVE Low32(_)
\* the low 32 bits of a value, as two 16-bit halves
Low32(a) ==
    IF a = <<>>
    THEN [hi |-> 0, lo |-> 0]
    ELSE LET r == Low32(Tail(a))
             lo == r.lo * 10 + Head(a)
             hi == r.hi * 10 + (lo \div 65536)
         IN  [hi |-> hi % 65536, lo |-> lo % 65536]

\* `as i32` of a u64: the low 32 bits, two's complement
AsI32(a) ==
    LET r == Low32(a)
    IN  IF r.hi >= 32768 THEN (r.hi - 65536) * 65536 + r.lo
                         ELSE r.hi * 65536 + r.lo

\* 2^63
TwoTo63 == U64Mul(U64Mul(U64Mul(U64(32768), 65536), 65536), 65536)

\* `as i64` of a u64: two's complement, a sign and a magnitude
AsI64(a) ==
    IF U64Less(a, TwoTo63) THEN [negative |-> FALSE, magnitude |-> a]
                           ELSE [negative |-> TRUE,
                                 magnitude |-> Minus(TwoTo64, a)]

RECURSIVE Mod64(_, _)
\* a value below 2^64 * 10^(k+1) modulo 2^64
Mod64(a, k) ==
    LET m == U64Mul(TwoTo64, 10^k)
    IN  IF ~U64Less(a, m) THEN Mod64(Minus(a, m), k)
        ELSE IF k = 0 THEN a
        ELSE Mod64(a, k - 1)

\* 10_u64.pow(8)
E8 == 100000000

\* variant: the quotient by 10000 is taken before the multiplication by 10^8
calculate_fee_amount_DivideFirst(fiat_amount_in_cents, asset_price_in_cents, has_referral) ==
    LET f == U64(fiat_amount_in_cents)
        p == asset_price_in_cents
        fee_in_asset ==
            IF fiat_amount_in_cents < 55 * 100
            THEN U64Div(U64Mul(U64(2 * 100), E8), p)
            ELSE IF fiat_amount_in_cents < 500 * 100
            THEN U64Div(U64Mul(U64Div(U64Mul(f, 350), 10000), E8), p)
            ELSE IF fiat_amount_in_cents < 5000 * 100
            THEN U64Div(U64Mul(U64Div(U64Mul(f, 325), 10000), E8), p)
            ELSE U64Div(U64Mul(U64Div(U64Mul(f, 275), 10000), E8), p)
        referral_discount == U64Div(U64Mul(U64Div(U64Mul(f, 50), 10000), E8), p)
    IN  IF has_referral THEN WrappingSub(fee_in_asset, referral_discount)
                        ELSE fee_in_asset

\* calculate_fee_amount, lines 483-508
calculate_fee_amount(fiat_amount_in_cents, asset_price_in_cents, has_referral) ==
    LET f == U64(fiat_amount_in_cents)
        p == asset_price_in_cents
        fee_in_asset ==
            IF fiat_amount_in_cents < 55 * 100
            THEN U64Div(U64Mul(U64(2 * 100), E8), p)
            ELSE IF fiat_amount_in_cents < 500 * 100
            THEN U64Div(U64Div(U64Mul(U64Mul(f, 350), E8), 10000), p)
            ELSE IF fiat_amount_in_cents < 5000 * 100
            THEN U64Div(U64Div(U64Mul(U64Mul(f, 325), E8), 10000), p)
            ELSE U64Div(U64Div(U64Mul(U64Mul(f, 275), E8), 10000), p)
        referral_discount == U64Div(U64Div(U64Mul(U64Mul(f, 50), E8), 10000), p)
    IN  IF has_referral THEN WrappingSub(fee_in_asset, referral_discount)
                        ELSE fee_in_asset

\* ---------------------------------------------------------------------------
\* The payout of one transaction: continue_with_transaction after the
\* inventory check, then finish_transaction
\* ---------------------------------------------------------------------------
\* amount_in_cents of the rows followed: the ends of the accepted range, the
\* edges of the fee tiers and of the flat fee, and the documented scenarios
FiatSamples == {1, 100, 199, 200, 201, 5499, 5500, 10000, 49999, 50000,
                100000, 499999, 500000}
\* price in cents of one unit of a floating asset
PriceSamples == {1, 7, 100, 12345, 10000000, 50000000}
PayoutAssets == {"DEPIX", "LBTC"}
\* users.referred_by and the referrer's referrals row
ReferrerStates == {"none", "no_address", "has_address"}

\* variant: the stablecoin is quoted with the markup of the floating assets
PricesOf_Markup(asset) == IF asset = "DEPIX" THEN {102} ELSE PriceSamples

\* request_asset_price over repositories/price.rs: DEPIX is Some(1.0), and
\* (price * 100.0) as u64 of it is 100
PricesOf(asset) == IF asset = "DEPIX" THEN {100} ELSE PriceSamples

\* variant: the referrer is left out of the request
Recipients_UserOnly(asset, amount_to_send_user, referral_bonus, referral_addr) ==
    <<[address |-> UserAddress, satoshi |-> amount_to_send_user, asset |-> asset]>>

\* continue_with_transaction, lines 574-590: the recipients vector
Recipients(asset, amount_to_send_user, referral_bonus, referral_addr) ==
    LET user_recipient == [address |-> UserAddress,
                           satoshi |-> amount_to_send_user, asset |-> asset]
        referral_recipient == [address |-> referral_addr,
                               satoshi |-> referral_bonus, asset |-> asset]
    IN  IF referral_addr # NoAddress
        THEN <<user_recipient, referral_recipient>>
        ELSE <<user_recipient>>

\* what `asset_amount - fee_in_asset - referral_bonus` can do: the exact
\* difference, or on underflow a panic (overflow checks on) or the difference
\* modulo 2^64 (overflow checks off)
SubOutcomes(asset_amount, fee_in_asset, referral_bonus) ==
    IF U64Less(asset_amount, Plus(fee_in_asset, referral_bonus))
    THEN {"panic", "wrap"}
    ELSE {"exact"}

\* update_transaction_status, lines 343-350: the row handed to
\* finish_transaction
LoadTransaction(f, a) ==
    /\ payout.pc = "idle"
    /\ payout' = [payout EXCEPT !.pc = "price", !.amount_in_cents = f,
                                !.asset = a]
    /\ UNCHANGED <<txVars, rpcVars, depVars, priceVars, liquidityVars, swapVars, walletVars, clientVars, sessionVars, mainVars>>

\* continue_with_transaction, line 535:
\* ((transaction.amount_in_cents - 100) as u64 * 10_u64.pow(6)) as i64.
\* The i32 difference is sign-extended by `as u64`; the u64 product either
\* fits, or panics (overflow checks on) or is taken modulo 2^64 (overflow
\* checks off); `as i64` reads the result as two's complement
SwapHintAmount(amount) ==
    LET difference == amount - 100
        as_u64 == IF difference >= 0 THEN U64(difference)
                  ELSE Minus(TwoTo64, U64(-difference))
        product == U64Mul(as_u64, 1000000)
    IN  [overflow |-> ~U64Less(product, TwoTo64),
         amount |-> AsI64(Mod64(product, 6))]

\* continue_with_transaction, lines 516-543, for a row whose inventory check
\* answered Ok(false): the SideswapRequest::Swap sent after the push, then
\* Err(InsufficientBalance)
SendSwapHint(outcome) ==
    /\ payout.pc = "price"
    /\ LET h == SwapHintAmount(payout.amount_in_cents)
       IN  /\ outcome \in IF h.overflow THEN {"panic", "wrap"} ELSE {"exact"}
           /\ payout' =
                 IF outcome = "panic"
                 THEN [payout EXCEPT !.pc = "hint_panicked",
                                     !.hint.overflow = TRUE]
                 ELSE [payout EXCEPT
                          !.pc = "queued",
                          !.hint = [sent |-> TRUE, sell_asset |-> "DEPIX",
                                    receive_asset |-> payout.asset,
                                    amount |-> h.amount,
                                    overflow |-> h.overflow]]
    /\ UNCHANGED <<txVars, rpcVars, depVars, priceVars, liquidityVars, swapVars, walletVars, clientVars, sessionVars, mainVars>>

\* continue_with_transaction, lines 547-550: the price and the gross amount
RequestAssetPrice(p) ==
    /\ payout.pc = "price"
    /\ p \in PricesOf(payout.asset)
    /\ payout' = [payout EXCEPT
           !.pc = "referral",
           !.asset_price_in_cents = p,
           !.asset_amount = U64Div(U64Mul(U64(payout.amount_in_cents), E8), p)]
    /\ UNCHANGED <<txVars, rpcVars, depVars, priceVars, liquidityVars, swapVars, walletVars, clientVars, sessionVars, mainVars>>

\* check_for_referral, lines 457-481: Some(address) only when the referrer's
\* payment address is found
CheckForReferral(r) ==
    /\ payout.pc = "referral"
    /\ payout' = [payout EXCEPT
           !.pc = "amounts",
           !.referrer = r,
           !.referral_addr = IF r = "has_address" THEN ReferrerAddress
                                                  ELSE NoAddress]
    /\ UNCHANGED <<txVars, rpcVars, depVars, priceVars, liquidityVars, swapVars, walletVars, clientVars, sessionVars, mainVars>>

\* continue_with_transaction, lines 552-599: the fee, its record, the bonus,
\* the user's amount and the BuildTransaction request
ComputeAmounts(outcome) ==
    /\ payout.pc = "amounts"
    /\ LET has_referral == payout.referral_addr # NoAddress
           fee_in_asset == calculate_fee_amount(payout.amount_in_cents,
                               payout.asset_price_in_cents, has_referral)
           referral_bonus ==
               IF has_referral
               THEN U64Div(U64Div(U64Mul(U64Mul(U64(payout.amount_in_cents), 50),
                                         E8), 10000),
                           payout.asset_price_in_cents)
               ELSE <<>>
           amount_to_send_user ==
               WrappingSub(WrappingSub(payout.asset_amount, fee_in_asset),
                           referral_bonus)
       IN  /\ outcome \in SubOutcomes(payout.asset_amount, fee_in_asset,
                                      referral_bonus)
           /\ payout' =
                 IF outcome = "panic"
                 THEN [payout EXCEPT !.pc = "panicked",
                                     !.fee_in_asset = fee_in_asset,
                                     !.fee_collected = AsI32(fee_in_asset),
                                     !.referral_bonus = referral_bonus]
                 ELSE [payout EXCEPT !.pc = "build",
                                     !.fee_in_asset = fee_in_asset,
                                     !.fee_collected = AsI32(fee_in_asset),
                                     !.referral_bonus = referral_bonus,
                                     !.amount_to_send_user = amount_to_send_user,
                                     !.wrapped = (outcome = "wrap"),
                                     !.recipients =
                                         Recipients(payout.asset,
                                                    amount_to_send_user,
                                                    referral_bonus,
                                                    payout.referral_addr)]
    /\ UNCHANGED <<txVars, rpcVars, depVars, priceVars, liquidityVars, swapVars, walletVars, clientVars, sessionVars, mainVars>>

\* continue_with_transaction, lines 592-609: the wallet's answer to
\* BuildTransaction
BuildPset(ok) ==
    /\ payout.pc = "build"
    /\ payout' = [payout EXCEPT !.builds = @ + 1,
                                !.pc = IF ok THEN "sign" ELSE "failed"]
    /\ UNCHANGED <<txVars, rpcVars, depVars, priceVars, liquidityVars, swapVars, walletVars, clientVars, sessionVars, mainVars>>

\* finish_transaction, lines 410-413: sign_transaction
SignPset(ok) ==
    /\ payout.pc = "sign"
    /\ payout' = [payout EXCEPT !.signs = @ + 1,
                                !.pc = IF ok THEN "finalize" ELSE "failed"]
    /\ UNCHANGED <<txVars, rpcVars, depVars, priceVars, liquidityVars, swapVars, walletVars, clientVars, sessionVars, mainVars>>

\* finish_transaction, line 414: finalize_transaction broadcasts on Ok
FinalizePset(ok) ==
    /\ payout.pc = "finalize"
    /\ payout' = [payout EXCEPT !.broadcasts = IF ok THEN @ + 1 ELSE @,
                                !.pc = IF ok THEN "finish" ELSE "failed"]
    /\ UNCHANGED <<txVars, rpcVars, depVars, priceVars, liquidityVars, swapVars, walletVars, clientVars, sessionVars, mainVars>>

\* finish_transaction, lines 416-423: the status becomes "finished"
SetFinished ==
    /\ payout.pc = "finish"
    /\ payout' = [payout EXCEPT !.pc = "finished", !.status = "finished"]
    /\ UNCHANGED <<txVars, rpcVars, depVars, priceVars, liquidityVars, swapVars, walletVars, clientVars, sessionVars, mainVars>>

NextPayout ==
    \/ \E f \in FiatSamples, a \in PayoutAssets : LoadTransaction(f, a)
    \/ \E o \in {"exact", "panic", "wrap"} : SendSwapHint(o)
    \/ \E p \in PriceSamples \cup {100, 102} : RequestAssetPrice(p)
    \/ \E r \in ReferrerStates : CheckForReferral(r)
    \/ \E o \in {"exact", "panic", "wrap"} : ComputeAmounts(o)
    \/ \E ok \in BOOLEAN : BuildPset(ok)
    \/ \E ok \in BOOLEAN : SignPset(ok)
    \/ \E ok \in BOOLEAN : FinalizePset(ok)
    \/ SetFinished

SpecPayout == Init /\ [][NextPayout]_vars

\* ---------------------------------------------------------------------------
\* NewTransaction: services/transactions.rs new_transaction over
\* repositories/transactions.rs new_transaction
\* ---------------------------------------------------------------------------
\* amount_in_cents of the requests: the tier caps, the daily cap and what is
\* left of it for the stored rows, each with the next cent, and i32::MAX
AmountSamples == {25000, 25001, 75000, 75001, 150000, 150001, 425000, 425001,
                  500000, 500001, 2147483647}

MaxI32 == 2147483647

\* the transactions table: the stored rows, then the inserted ones
Table == StoredTransactions \o transactions

RowsOf(u) == {i \in DOMAIN Table : Table[i].user_id = u}

\* get_transaction_count: COUNT(1) ... AND status = 'eulen_depix_sent'
TransactionCount(u) ==
    Cardinality({i \in RowsOf(u) : Table[i].status = "eulen_depix_sent"})

RECURSIVE SumAmounts(_)
\* SUM(amount_in_cents), a bigint, over a set of rows (decimal digits)
SumAmounts(S) ==
    IF S = {} THEN <<>>
    ELSE LET i == CHOOSE x \in S : TRUE
         IN  Plus(U64(Table[i].amount_in_cents), SumAmounts(S \ {i}))

\* get_daily_spending: SUM(amount_in_cents) of today's rows at
\* 'eulen_depix_sent', returned `as i32`
DailySpending(u) ==
    AsI32(SumAmounts({i \in RowsOf(u) : /\ Table[i].status = "eulen_depix_sent"
                                        /\ Table[i].today}))

\* variant: an amount equal to the cap is refused as well
TierExceeded_AtCap(transaction_count, amount) ==
    \/ transaction_count = 0 /\ amount >= 250 * 100
    \/ transaction_count = 1 /\ amount >= 750 * 100
    \/ transaction_count = 2 /\ amount >= 1500 * 100

\* repositories new_transaction, lines 27-30
TierExceeded(transaction_count, amount) ==
    \/ transaction_count = 0 /\ amount > 250 * 100
    \/ transaction_count = 1 /\ amount > 750 * 100
    \/ transaction_count = 2 /\ amount > 1500 * 100

\* what the i32 `amount_in_cents + daily_spending` can do: the exact sum, or
\* past i32::MAX a panic (overflow checks on) or the sum minus 2^32
SumOutcomes(amount, daily_spending) ==
    IF daily_spending > 0 /\ amount > MaxI32 - daily_spending
    THEN {"panic", "wrap"}
    ELSE {"exact"}

\* amount + daily_spending - 2^32
WrappedSum(amount, daily_spending) ==
    (amount - MaxI32) + (daily_spending - MaxI32) - 2

\* repositories new_transaction, line 34
DailyExceeded(sum) == sum > 5000 * 100

\* variant: the Pix deposit is requested whatever the repository returned
AfterRepository_Continue(err) == "pix"

\* services new_transaction, lines 278-291: an error of the repository
\* returns with `?`
AfterRepository(err) == IF err = "none" THEN "pix" ELSE "done"

\* Service::run receives NewTransaction and spawns new_transaction
NewTransaction(u, a) ==
    /\ started < MaxDeposits
    /\ started' = started + 1
    /\ deposit' = [deposit EXCEPT ![started + 1] =
                      [IdleDeposit EXCEPT !.pc = "get_user", !.user_id = u,
                                          !.amount_in_cents = a]]
    /\ UNCHANGED <<users, transactions, pix_requests, user_mailbox>>
    /\ UNCHANGED <<pix_transactions, user_details, txVars, rpcVars, payVars, priceVars, liquidityVars, swapVars, walletVars, clientVars, sessionVars, mainVars>>

\* services new_transaction, lines 238-261: GetUser, and for None a
\* CreateUser whose answer is not awaited
GetUser(r) ==
    /\ deposit[r].pc = "get_user"
    /\ LET found == deposit[r].user_id \in users
       IN  /\ deposit' = [deposit EXCEPT ![r].pc = "address",
                                         ![r].user_found = found]
           /\ user_mailbox' = IF found THEN user_mailbox
                              ELSE Append(user_mailbox, [referral_code |-> "none"])
    /\ UNCHANGED <<users, transactions, pix_requests, started>>
    /\ UNCHANGED <<pix_transactions, user_details, txVars, rpcVars, payVars, priceVars, liquidityVars, swapVars, walletVars, clientVars, sessionVars, mainVars>>

\* UserRequestHandler CreateUser over insert_user: a row with a new id
CreateUser ==
    /\ user_mailbox # <<>>
    /\ user_mailbox' = Tail(user_mailbox)
    /\ users' = users \cup {NewUserId(Cardinality(users \ (KnownUsers \cup {MissingUser})) + 1)}
    /\ UNCHANGED <<transactions, pix_requests, deposit, started>>
    /\ UNCHANGED <<pix_transactions, user_details, txVars, rpcVars, payVars, priceVars, liquidityVars, swapVars, walletVars, clientVars, sessionVars, mainVars>>

\* services new_transaction, lines 263-276: the fee address from the wallet
GetNewAddress(r, ok) ==
    /\ deposit[r].pc = "address"
    /\ deposit' = [deposit EXCEPT
           ![r].pc = IF ok THEN "limits" ELSE "done",
           ![r].error = IF ok THEN "none" ELSE "wallet",
           ![r].result = IF ok THEN "none" ELSE "Err"]
    /\ UNCHANGED <<users, transactions, pix_requests, user_mailbox, started>>
    /\ UNCHANGED <<pix_transactions, user_details, txVars, rpcVars, payVars, priceVars, liquidityVars, swapVars, walletVars, clientVars, sessionVars, mainVars>>

\* repositories new_transaction, lines 25-26: the two reads
ReadLimits(r) ==
    /\ deposit[r].pc = "limits"
    /\ deposit' = [deposit EXCEPT
           ![r].pc = "insert",
           ![r].transaction_count = TransactionCount(deposit[r].user_id),
           ![r].daily_spending = DailySpending(deposit[r].user_id)]
    /\ UNCHANGED <<users, transactions, pix_requests, user_mailbox, started>>
    /\ UNCHANGED <<pix_transactions, user_details, txVars, rpcVars, payVars, priceVars, liquidityVars, swapVars, walletVars, clientVars, sessionVars, mainVars>>

\* repositories new_transaction, lines 27-62: the tier check, the daily
\* check and the INSERT; refused is the answer of a users foreign key, which
\* the sources do not show, for a user_id without a row
CheckAndInsert(r, o, refused) ==
    /\ deposit[r].pc = "insert"
    /\ LET d == deposit[r]
           done(e) == [deposit EXCEPT ![r].pc = AfterRepository(e),
                                      ![r].error = e,
                                      ![r].result = IF e = "none" THEN "none"
                                                                  ELSE "Err"]
       IN  IF TierExceeded(d.transaction_count, d.amount_in_cents)
           THEN /\ o = "exact" /\ ~refused
                /\ deposit' = done("ExceededAllowedTransactionAmount")
                /\ UNCHANGED transactions
           ELSE /\ o \in SumOutcomes(d.amount_in_cents, d.daily_spending)
                /\ IF o = "panic"
                   THEN /\ ~refused
                        /\ deposit' = [deposit EXCEPT ![r].pc = "panicked",
                                                      ![r].error = "panic",
                                                      ![r].result = "Err"]
                        /\ UNCHANGED transactions
                   ELSE LET sum == IF o = "wrap"
                                   THEN WrappedSum(d.amount_in_cents,
                                                   d.daily_spending)
                                   ELSE d.amount_in_cents + d.daily_spending
                        IN  IF DailyExceeded(sum)
                            THEN /\ ~refused
                                 /\ deposit' = done("ExceededDailyAmount")
                                 /\ UNCHANGED transactions
                            ELSE IF refused
                            THEN /\ d.user_id \notin users
                                 /\ deposit' = done("Database")
                                 /\ UNCHANGED transactions
                            ELSE /\ deposit' = done("none")
                                 /\ transactions' = Append(transactions,
                                        [user_id |-> d.user_id,
                                         amount_in_cents |-> d.amount_in_cents,
                                         status |-> "pending", today |-> TRUE,
                                         by |-> r])
    /\ UNCHANGED <<users, pix_requests, user_mailbox, started>>
    /\ UNCHANGED <<pix_transactions, user_details, txVars, rpcVars, payVars, priceVars, liquidityVars, swapVars, walletVars, clientVars, sessionVars, mainVars>>

\* repositories/pix.rs new_pix_deposit, lines 27-41: the INSERT statement is
\* built and bound but never executed, and the future of commit is never
\* awaited; the database transaction is dropped, which rolls it back.  The
\* table is left as it was.
InsertPixDeposit(rows, row) == rows

\* services new_transaction, lines 293-326, with the Pix service's handling of
\* the request (services/pix.rs 46-59, repositories/pix.rs 18-53): the call to
\* the payment provider succeeds or fails; after a success the repository
\* goes through its insert and answers with the deposit
RequestDeposit(r, ok) ==
    /\ deposit[r].pc = "pix"
    /\ pix_requests' = Append(pix_requests,
                              [by |-> r,
                               amount_in_cents |-> deposit[r].amount_in_cents])
    /\ pix_transactions' =
          IF ok THEN InsertPixDeposit(pix_transactions,
                         [transaction_id |-> r,
                          amount_in_cents |-> deposit[r].amount_in_cents,
                          status |-> "pending"])
                ELSE pix_transactions
    /\ deposit' = [deposit EXCEPT
           ![r].pc = "done",
           ![r].result = IF ok /\ deposit[r].error = "none" THEN "Ok" ELSE "Err",
           ![r].error = IF ok THEN @ ELSE "pix"]
    /\ UNCHANGED <<users, transactions, user_mailbox, started, user_details>>
    /\ UNCHANGED <<txVars, rpcVars, payVars, priceVars, liquidityVars, swapVars, walletVars, clientVars, sessionVars, mainVars>>

\* repositories/users.rs get_user_spending, lines 96-105: SUM(amount_in_cents)
\* of all the user's rows at 'eulen_depix_sent'
UserSpending(u) ==
    SumAmounts({i \in RowsOf(u) : Table[i].status = "eulen_depix_sent"})

\* repositories/users.rs get_user_daily_spending, lines 85-94: the sum of
\* today's rows at 'eulen_depix_sent' as an i64
UserDailySpending(u) ==
    SumAmounts({i \in RowsOf(u) : /\ Table[i].status = "eulen_depix_sent"
                                  /\ Table[i].today})

\* repositories/users.rs get_user_allowed_spending, lines 107-122: the tier is
\* chosen by the sum spent, and the last branch answers the daily spending;
\* an i64 is a sign and a magnitude
get_user_allowed_spending(u) ==
    LET user_spending == UserSpending(u)
        user_daily_spending == UserDailySpending(u)
        less(cap) ==
            IF U64Less(U64(cap), user_daily_spending)
            THEN [negative |-> TRUE,
                  magnitude |-> Minus(user_daily_spending, U64(cap))]
            ELSE [negative |-> FALSE,
                  magnitude |-> Minus(U64(cap), user_daily_spending)]
    IN  IF U64Less(user_spending, U64(250 * 100)) THEN less(250 * 100)
        ELSE IF U64Less(user_spending, U64(750 * 100)) THEN less(750 * 100)
        ELSE IF U64Less(user_spending, U64(1500 * 100)) THEN less(1500 * 100)
        ELSE [negative |-> FALSE, magnitude |-> user_daily_spending]

\* services/users.rs get_user_details, lines 88-98, for UserRequest::
\* GetUserDetails; transaction_count records the user's count of rows at
\* 'eulen_depix_sent' at the time of the answer.  Both queries read only
\* rows at 'eulen_depix_sent', which a NewTransaction in flight neither adds
\* nor changes, so one request is followed, once the NewTransaction
\* requests have been handled.
GetUserDetails(u) ==
    /\ user_details.id = None
    /\ started = MaxDeposits
    /\ \A r \in Deposits : deposit[r].pc \in {"done", "panicked"}
    /\ user_details' = [id |-> u,
                        transaction_count |-> TransactionCount(u),
                        daily_spending |-> UserDailySpending(u),
                        allowed_spending |-> get_user_allowed_spending(u)]
    /\ UNCHANGED <<users, transactions, pix_requests, pix_transactions,
                   user_mailbox, deposit, started>>
    /\ UNCHANGED <<txVars, rpcVars, payVars, priceVars, liquidityVars, swapVars, walletVars, clientVars, sessionVars, mainVars>>

\* the PSP's webhook for a deposit it created: update_transaction_status,
\* services/transactions.rs 334-341, writes the status of the row
ConfirmDeposit(i) ==
    /\ i \in DOMAIN transactions
    /\ transactions[i].status = "pending"
    /\ deposit[transactions[i].by].result = "Ok"
    /\ transactions' = [transactions EXCEPT
           ![i].status = StoredStatus(@, "eulen_depix_sent")]
    /\ UNCHANGED <<users, pix_requests, pix_transactions, user_mailbox,
                   deposit, started, user_details>>
    /\ UNCHANGED <<txVars, rpcVars, payVars, priceVars, liquidityVars, swapVars, walletVars, clientVars, sessionVars, mainVars>>

\* finish_transaction, services/transactions.rs 416-421: after the payout
\* the row becomes 'finished'
FinishRow(i) ==
    /\ i \in DOMAIN transactions
    /\ transactions[i].status = "eulen_depix_sent"
    /\ transactions' = [transactions EXCEPT
           ![i].status = StoredStatus(@, "finished")]
    /\ UNCHANGED <<users, pix_requests, pix_transactions, user_mailbox,
                   deposit, started, user_details>>
    /\ UNCHANGED <<txVars, rpcVars, payVars, priceVars, liquidityVars, swapVars, walletVars, clientVars, sessionVars, mainVars>>

NextDeposit ==
    \/ \E u \in KnownUsers \cup {MissingUser}, a \in AmountSamples :
          NewTransaction(u, a)
    \/ \E r \in Deposits : GetUser(r)
    \/ CreateUser
    \/ \E r \in Deposits, ok \in BOOLEAN : GetNewAddress(r, ok)
    \/ \E r \in Deposits : ReadLimits(r)
    \/ \E r \in Deposits, o \in {"exact", "panic", "wrap"}, refused \in BOOLEAN :
          CheckAndInsert(r, o, refused)
    \/ \E r \in Deposits, ok \in BOOLEAN : RequestDeposit(r, ok)
    \/ \E i \in Deposits : ConfirmDeposit(i)
    \/ \E i \in Deposits : FinishRow(i)

SpecDeposit == Init /\ [][NextDeposit]_vars

\* the UserService answering GetUserDetails over the table the deposits,
\* webhooks and payouts have left
NextUsers ==
    \/ NextDeposit
    \/ \E u \in KnownUsers \cup {MissingUser} : GetUserDetails(u)

SpecUsers == Init /\ [][NextUsers]_vars


\* ---------------------------------------------------------------------------
\* PriceRepository: the price fetch task and the read with spread
\* (repositories/price.rs).  A price is a whole number of BRL; the f64
\* product price * 1.02 is kept as hundredths of BRL, price * 102, which is
\* the exact f64 result for the prices 100 and 250 of SourceResults.

MaxTicks == 2

\* what a source can hand back: Err from the request or the JSON decoding, or
\* a PriceCache whose fields are present or absent
SourceResults ==
    {[ok |-> FALSE, bitcoin |-> None, usdt |-> None]} \cup
    [ok : {TRUE}, bitcoin : {100, 250, None}, usdt : {100, 250, None}]

\* fetch_best_prices, lines 88-100: the match over the two options
Best(cg, bn, old) ==
    IF cg # None /\ bn # None THEN (IF cg >= bn THEN cg ELSE bn)
    ELSE IF cg # None THEN cg
    ELSE IF bn # None THEN bn
    ELSE None

\* get_asset_price_with_spread, lines 34-54
get_asset_price_with_spread(asset) ==
    IF asset = "DEPIX"
    THEN [asset |-> asset, ok |-> TRUE, hundredths |-> 100]
    ELSE LET price == IF asset = "LBTC" THEN price_cache.bitcoin
                                        ELSE price_cache.usdt
         IN  IF price # None
             THEN [asset |-> asset, ok |-> TRUE, hundredths |-> price * 102]
             ELSE [asset |-> asset, ok |-> FALSE, hundredths |-> 0]

\* start_price_fetch_task, lines 63-72: interval.tick() fires and
\* fetch_best_prices starts
PriceTick ==
    /\ price_tick.pc \in {"idle", "done"}
    /\ price_ticks < MaxTicks
    /\ price_ticks' = price_ticks + 1
    /\ price_tick' = [IdleTick EXCEPT !.pc = "coingecko",
                                      !.before = price_cache]
    /\ UNCHANGED <<price_cache, price_read>>
    /\ UNCHANGED <<txVars, rpcVars, payVars, depVars, liquidityVars, swapVars, walletVars, clientVars, sessionVars, mainVars>>

\* fetch_best_prices, line 85, with fetch_prices_from_coingecko 108-123
FetchCoingecko(res) ==
    /\ price_tick.pc = "coingecko"
    /\ price_tick' = [price_tick EXCEPT
           !.coingecko = res,
           !.pc = IF res.ok THEN "binance" ELSE "done",
           !.result = IF res.ok THEN "none" ELSE "Err"]
    /\ UNCHANGED <<price_cache, price_ticks, price_read>>
    /\ UNCHANGED <<txVars, rpcVars, payVars, depVars, liquidityVars, swapVars, walletVars, clientVars, sessionVars, mainVars>>

\* fetch_best_prices, line 86, with fetch_prices_from_binance 125-146: the
\* `?` returns an error of the source and the tick ends without a write
FetchBinance(res) ==
    /\ price_tick.pc = "binance"
    /\ price_tick' = [price_tick EXCEPT
           !.binance = res,
           !.pc = IF res.ok THEN "write" ELSE "done",
           !.result = IF res.ok THEN "none" ELSE "Err"]
    /\ UNCHANGED <<price_cache, price_ticks, price_read>>
    /\ UNCHANGED <<txVars, rpcVars, payVars, depVars, liquidityVars, swapVars, walletVars, clientVars, sessionVars, mainVars>>

\* fetch_prices_from_binance, lines 137-144: a price that is not a string of
\* a number makes unwrap panic; the spawned fetch task ends for good
BinancePanic ==
    /\ price_tick.pc = "binance"
    /\ price_tick' = [price_tick EXCEPT !.pc = "panicked",
                                        !.binance.ok = FALSE,
                                        !.result = "panic"]
    /\ UNCHANGED <<price_cache, price_ticks, price_read>>
    /\ UNCHANGED <<txVars, rpcVars, payVars, depVars, liquidityVars, swapVars, walletVars, clientVars, sessionVars, mainVars>>

\* fetch_best_prices, lines 88-105: both fields of the cache are replaced
WriteCache ==
    /\ price_tick.pc = "write"
    /\ LET cg == price_tick.coingecko
           bn == price_tick.binance
       IN  price_cache' =
               [bitcoin |-> Best(cg.bitcoin, bn.bitcoin, price_cache.bitcoin),
                usdt |-> Best(cg.usdt, bn.usdt, price_cache.usdt)]
    /\ price_tick' = [price_tick EXCEPT !.pc = "done", !.result = "Ok"]
    /\ UNCHANGED <<price_ticks, price_read>>
    /\ UNCHANGED <<txVars, rpcVars, payVars, depVars, liquidityVars, swapVars, walletVars, clientVars, sessionVars, mainVars>>

\* services/price.rs handle_request, lines 43-50: PriceRequest::GetPrice
GetPrice(asset) ==
    /\ price_read' = get_asset_price_with_spread(asset)
    /\ UNCHANGED <<price_cache, price_tick, price_ticks>>
    /\ UNCHANGED <<txVars, rpcVars, payVars, depVars, liquidityVars, swapVars, walletVars, clientVars, sessionVars, mainVars>>

NextPrice ==
    \/ PriceTick
    \/ \E res \in SourceResults : FetchCoingecko(res)
    \/ \E res \in SourceResults : FetchBinance(res)
    \/ BinancePanic
    \/ WriteCache
    \/ \E asset \in {"DEPIX", "LBTC", "USDT"} : GetPrice(asset)

SpecPrice == Init /\ [][NextPrice]_vars


\* ---------------------------------------------------------------------------
\* LiquidityHandler (services/liquidity.rs).  Amounts are u64 base units,
\* kept as digit sequences.

MaxUpdates == 2

\* liquidity.max_depix_amount of the settings: 10^10 base units
depix_max_amount == U64Mul(U64(100000), 100000)

\* DEPIX balances reported by the wallet scan (services/liquid.rs 76-89): a
\* sum of unspent outputs.  The largest one leaves a difference of 2^63 - 1.
BalanceSamples ==
    { <<>>,
      Minus(depix_max_amount, U64(1)),
      depix_max_amount,
      Plus(depix_max_amount, U64(1)),
      U64Mul(U64(150000), 100000),
      Plus(depix_max_amount, Minus(TwoTo63, U64(1))) }

AboveCeiling_AtCeiling(current_balance, max) == ~U64Less(current_balance, max)

\* manage_depix_liquidity, line 41: current_balance > self.depix_max_amount
AboveCeiling(current_balance, max) == U64Less(max, current_balance)

\* Service::run, services.rs 45-53: an UpdateAssetAmount message is received
\* and its handler task is spawned
UpdateAssetAmount(asset_id, amount) ==
    /\ Len(liquidity_tasks) < MaxUpdates
    /\ liquidity_tasks' = Append(liquidity_tasks,
           [pc |-> "spawned", asset_id |-> asset_id, amount |-> amount])
    /\ UNCHANGED sideswap_channel
    /\ UNCHANGED <<txVars, rpcVars, payVars, depVars, priceVars, swapVars, walletVars, clientVars, sessionVars, mainVars>>

\* handle_request 66-72, manage_asset_liquidity 29-38 and
\* manage_depix_liquidity 40-61 of one handler task
ManageAssetLiquidity(k) ==
    /\ k \in DOMAIN liquidity_tasks
    /\ liquidity_tasks[k].pc = "spawned"
    /\ LET m == liquidity_tasks[k]
       IN  IF m.asset_id = "DEPIX" /\ AboveCeiling(m.amount, depix_max_amount)
           THEN sideswap_channel' = Append(sideswap_channel,
                    [by |-> k, sell_asset |-> "DEPIX",
                     receive_asset |-> "LBTC",
                     amount |-> AsI64(Minus(m.amount, depix_max_amount))])
           ELSE UNCHANGED sideswap_channel
    /\ liquidity_tasks' = [liquidity_tasks EXCEPT ![k].pc = "done"]
    /\ UNCHANGED <<txVars, rpcVars, payVars, depVars, priceVars, swapVars, walletVars, clientVars, sessionVars, mainVars>>

NextLiquidity ==
    \/ \E asset_id \in {"DEPIX", "LBTC", "USDT", "unknown"},
          amount \in BalanceSamples :
          UpdateAssetAmount(asset_id, amount)
    \/ \E k \in 1..MaxUpdates : ManageAssetLiquidity(k)

SpecLiquidity == Init /\ [][NextLiquidity]_vars


\* ---------------------------------------------------------------------------
\* Quote notifications.  Two handlers receive them: SideswapRequestHandler of
\* the dealer (services/sideswap.rs), whose Service::run spawns a task per
\* SideswapRequest::Quote, and SwapServiceImpl of mooze-swap
\* (mooze-swap/src/service.rs), whose listener loop handles one notification
\* at a time.

MaxQuotes == 2

\* the PSET of a quote as get_quote returns it; the wallet's answer to Sign
\* is <<"signed", pset>>
QuotePset(quote_id) == <<"pset", quote_id>>

\* quote_sub_id of the subscriptions the venue streams quotes for
QuoteSubs == {1, 2}

\* stop_quotes calls the listener of mooze-swap has made so far
StopsSent ==
    {c \in DOMAIN swap_calls :
        /\ swap_calls[c].call = "stop_quotes"
        /\ quote_tasks[swap_calls[c].by].handler = "mooze_swap"}

\* process_quote sends the notification on the handler's channel (client.rs
\* start_notification_listener; mooze-swap service/sideswap.rs 232-300).  In
\* the dealer Service::run, services.rs 45-53, spawns a task for it; in
\* mooze-swap it waits in the channel (capacity 100) for the listener.
\* after_stop records whether stop_quotes had been called when the venue
\* streamed it
DeliverQuote(handler, quote, sub) ==
    /\ Len(quote_tasks) < MaxQuotes
    /\ quote_tasks' = Append(quote_tasks,
           [handler |-> handler, status |-> quote,
            pc |-> IF handler = "mooze_swap" THEN "queued" ELSE "received",
            quote_id |-> Len(quote_tasks) + 1, quote_sub_id |-> sub,
            after_stop |-> (handler = "mooze_swap" /\ StopsSent # {}),
            failed |-> "none"])
    /\ UNCHANGED swap_calls
    /\ UNCHANGED <<txVars, rpcVars, payVars, depVars, priceVars, liquidityVars, walletVars, clientVars, sessionVars, mainVars>>

\* mooze-swap service.rs start_notification_listener, lines 50-59: recv
\* takes the oldest notification of the channel once the proceed_with_quote
\* before it has returned (never after a panic); quote_sub_id is only logged
RecvNotification(k) ==
    /\ k \in DOMAIN quote_tasks
    /\ quote_tasks[k].handler = "mooze_swap"
    /\ quote_tasks[k].pc = "queued"
    /\ \A j \in 1..(k - 1) :
           quote_tasks[j].handler = "mooze_swap" => quote_tasks[j].pc = "done"
    /\ quote_tasks' = [quote_tasks EXCEPT ![k].pc = "received"]
    /\ UNCHANGED swap_calls
    /\ UNCHANGED <<txVars, rpcVars, payVars, depVars, priceVars, liquidityVars, walletVars, clientVars, sessionVars, mainVars>>

\* services/sideswap.rs handle_request, lines 332-337: the future returned by
\* proceed_with_quote is bound to `_` and dropped without being awaited, so
\* nothing of proceed_with_quote runs and the handler returns
HandleRequest(k) ==
    /\ k \in DOMAIN quote_tasks
    /\ quote_tasks[k].handler = "dealer"
    /\ quote_tasks[k].pc = "received"
    /\ quote_tasks' = [quote_tasks EXCEPT
           ![k].pc = "done"]
    /\ UNCHANGED swap_calls
    /\ UNCHANGED <<txVars, rpcVars, payVars, depVars, priceVars, liquidityVars, walletVars, clientVars, sessionVars, mainVars>>

\* mooze-swap service.rs proceed_with_quote, lines 137-183: the match on the
\* status
ProceedWithQuote(k) ==
    /\ k \in DOMAIN quote_tasks
    /\ quote_tasks[k].handler = "mooze_swap"
    /\ quote_tasks[k].pc = "received"
    /\ quote_tasks' = [quote_tasks EXCEPT
           ![k].pc = IF quote_tasks[k].status = "Success" THEN "get_quote"
                                                          ELSE "stop"]
    /\ UNCHANGED swap_calls
    /\ UNCHANGED <<txVars, rpcVars, payVars, depVars, priceVars, liquidityVars, walletVars, clientVars, sessionVars, mainVars>>

\* what follows a call made through call_sideswap_api!: the decoded value,
\* an error, or the panic of unwrap on a reply without "result"
AfterCall(outcome, next) ==
    CASE outcome = "ok" -> next
      [] outcome = "err" -> "done"
      [] outcome = "panic" -> "panicked"

\* finish_swap, lines 186-188: get_quote_pset
GetQuotePset(k, outcome) ==
    /\ k \in DOMAIN quote_tasks
    /\ quote_tasks[k].pc = "get_quote"
    /\ swap_calls' = Append(swap_calls,
           [by |-> k, call |-> "get_quote",
            quote_id |-> quote_tasks[k].quote_id, pset |-> <<>>])
    /\ quote_tasks' = [quote_tasks EXCEPT
           ![k].pc = AfterCall(outcome, "sign"),
           ![k].failed = IF outcome = "ok" THEN "none" ELSE "get_quote"]
    /\ UNCHANGED <<txVars, rpcVars, payVars, depVars, priceVars, liquidityVars, walletVars, clientVars, sessionVars, mainVars>>

\* finish_swap, lines 190-192, with WalletClient::sign_pset
WalletSignPset(k, ok) ==
    /\ k \in DOMAIN quote_tasks
    /\ quote_tasks[k].pc = "sign"
    /\ swap_calls' = Append(swap_calls,
           [by |-> k, call |-> "Sign",
            quote_id |-> quote_tasks[k].quote_id,
            pset |-> QuotePset(quote_tasks[k].quote_id)])
    /\ quote_tasks' = [quote_tasks EXCEPT
           ![k].pc = IF ok THEN "taker_sign" ELSE "done",
           ![k].failed = IF ok THEN "none" ELSE "sign"]
    /\ UNCHANGED <<txVars, rpcVars, payVars, depVars, priceVars, liquidityVars, walletVars, clientVars, sessionVars, mainVars>>

\* finish_swap, lines 194-196: sign_quote sends taker_sign
SignQuote(k, outcome) ==
    /\ k \in DOMAIN quote_tasks
    /\ quote_tasks[k].pc = "taker_sign"
    /\ swap_calls' = Append(swap_calls,
           [by |-> k, call |-> "taker_sign",
            quote_id |-> quote_tasks[k].quote_id,
            pset |-> <<"signed", QuotePset(quote_tasks[k].quote_id)>>])
    /\ quote_tasks' = [quote_tasks EXCEPT
           ![k].pc = AfterCall(outcome, "stop"),
           ![k].failed = IF outcome = "ok" THEN "none" ELSE "taker_sign"]
    /\ UNCHANGED <<txVars, rpcVars, payVars, depVars, priceVars, liquidityVars, walletVars, clientVars, sessionVars, mainVars>>

\* proceed_with_quote, lines 154 and 158, and finish_swap, line 198:
\* stop_quotes, whose answer is ignored
StopQuotes(k) ==
    /\ k \in DOMAIN quote_tasks
    /\ quote_tasks[k].pc = "stop"
    /\ swap_calls' = Append(swap_calls,
           [by |-> k, call |-> "stop_quotes",
            quote_id |-> quote_tasks[k].quote_id, pset |-> <<>>])
    /\ quote_tasks' = [quote_tasks EXCEPT ![k].pc = "done"]
    /\ UNCHANGED <<txVars, rpcVars, payVars, depVars, priceVars, liquidityVars, walletVars, clientVars, sessionVars, mainVars>>

NextSwap ==
    \/ \E handler \in {"dealer", "mooze_swap"},
          quote \in {"Success", "LowBalance", "Error"}, sub \in QuoteSubs :
          DeliverQuote(handler, quote, sub)
    \/ \E k \in 1..MaxQuotes : RecvNotification(k)
    \/ \E k \in 1..MaxQuotes : HandleRequest(k)
    \/ \E k \in 1..MaxQuotes : ProceedWithQuote(k)
    \/ \E k \in 1..MaxQuotes, outcome \in {"ok", "err", "panic"} :
          GetQuotePset(k, outcome)
    \/ \E k \in 1..MaxQuotes, ok \in BOOLEAN : WalletSignPset(k, ok)
    \/ \E k \in 1..MaxQuotes, outcome \in {"ok", "err", "panic"} :
          SignQuote(k, outcome)
    \/ \E k \in 1..MaxQuotes : StopQuotes(k)

SpecSwap == Init /\ [][NextSwap]_vars


\* ---------------------------------------------------------------------------
\* The wallet: LiquidRequestHandler (services/liquid.rs) and LiquidRepository
\* (repositories/liquid.rs).  Service::run spawns a task per LiquidRequest;
\* build_transaction and finalize_and_broadcast_transaction take the read
\* side of the RwLock around the Wollet, update_wallet takes the write side.

MaxWalletRequests == 3

Reading == {k \in DOMAIN wallet_tasks : wallet_tasks[k].pc = "reading"}

\* tx_builder.finish(), line 120: the outputs the builder spends are chosen
\* from the wallet's current set of unspent outputs, the same ones for the
\* same set; with no output left the build fails
SelectedUtxos(unspent) ==
    IF unspent = {} THEN {}
    ELSE {CHOOSE u \in unspent : \A v \in unspent : u <= v}

\* Service::run, services.rs 45-53: a BuildTransaction request is received
\* and its handler task is spawned
RequestBuild ==
    /\ Len(wallet_tasks) < MaxWalletRequests
    /\ wallet_tasks' = Append(wallet_tasks,
           [kind |-> "BuildTransaction", pc |-> "spawned", inputs |-> {}])
    /\ UNCHANGED wallet_utxos
    /\ UNCHANGED <<txVars, rpcVars, payVars, depVars, priceVars, liquidityVars, swapVars, clientVars, sessionVars, mainVars>>

\* Service::run: a FinalizeTransaction request for the PSET that request j
\* built is received and its handler task is spawned
RequestFinalize(j) ==
    /\ Len(wallet_tasks) < MaxWalletRequests
    /\ j \in DOMAIN wallet_tasks
    /\ wallet_tasks[j].kind = "BuildTransaction"
    /\ wallet_tasks[j].pc = "done"
    /\ wallet_tasks[j].inputs # {}
    /\ wallet_tasks' = Append(wallet_tasks,
           [kind |-> "FinalizeTransaction", pc |-> "spawned",
            inputs |-> wallet_tasks[j].inputs])
    /\ UNCHANGED wallet_utxos
    /\ UNCHANGED <<txVars, rpcVars, payVars, depVars, priceVars, liquidityVars, swapVars, clientVars, sessionVars, mainVars>>

\* build_transaction, line 113, and finalize_and_broadcast_transaction, lines
\* 151-152: self.wallet.read().await, a shared guard
WalletRead(k) ==
    /\ k \in DOMAIN wallet_tasks
    /\ wallet_tasks[k].pc = "spawned"
    /\ wallet_tasks' = [wallet_tasks EXCEPT ![k].pc = "reading"]
    /\ UNCHANGED wallet_utxos
    /\ UNCHANGED <<txVars, rpcVars, payVars, depVars, priceVars, liquidityVars, swapVars, clientVars, sessionVars, mainVars>>

\* build_transaction, lines 114-132: the PSET is built and the guard dropped
BuildPsetDone(k) ==
    /\ k \in Reading
    /\ wallet_tasks[k].kind = "BuildTransaction"
    /\ wallet_tasks' = [wallet_tasks EXCEPT
           ![k].pc = "done", ![k].inputs = SelectedUtxos(wallet_utxos)]
    /\ UNCHANGED wallet_utxos
    /\ UNCHANGED <<txVars, rpcVars, payVars, depVars, priceVars, liquidityVars, swapVars, clientVars, sessionVars, mainVars>>

\* finalize_and_broadcast_transaction, lines 154-167: finalize, broadcast, drop
\* the guards; the Wollet itself is not changed
BroadcastDone(k, ok) ==
    /\ k \in Reading
    /\ wallet_tasks[k].kind = "FinalizeTransaction"
    /\ wallet_tasks' = [wallet_tasks EXCEPT
           ![k].pc = IF ok THEN "broadcast" ELSE "done"]
    /\ UNCHANGED wallet_utxos
    /\ UNCHANGED <<txVars, rpcVars, payVars, depVars, priceVars, liquidityVars, swapVars, clientVars, sessionVars, mainVars>>

\* update_wallet, lines 90-102, run every 60 s by LiquidRequestHandler::start:
\* the write guard, then the scan removes the outputs that were spent
UpdateWallet ==
    /\ Reading = {}
    /\ wallet_utxos' = wallet_utxos \
           UNION {wallet_tasks[k].inputs : k \in
                     {i \in DOMAIN wallet_tasks :
                         wallet_tasks[i].pc = "broadcast"}}
    /\ UNCHANGED wallet_tasks
    /\ UNCHANGED <<txVars, rpcVars, payVars, depVars, priceVars, liquidityVars, swapVars, clientVars, sessionVars, mainVars>>

NextWallet ==
    \/ RequestBuild
    \/ \E j \in 1..MaxWalletRequests : RequestFinalize(j)
    \/ \E k \in 1..MaxWalletRequests : WalletRead(k)
    \/ \E k \in 1..MaxWalletRequests : BuildPsetDone(k)
    \/ \E k \in 1..MaxWalletRequests, ok \in BOOLEAN : BroadcastDone(k, ok)
    \/ UpdateWallet

SpecWallet == Init /\ [][NextWallet]_vars


\* ---------------------------------------------------------------------------
\* SideswapClient: the market calls made through call_sideswap_api!
\* (services/sideswap/client.rs 11-34 and mooze-swap/src/service/sideswap.rs
\* 10-33, the same macro).

MaxClientCalls == 2

\* what call_method hands back: an error of the channel, or the venue's reply,
\* which has a "result" field or not, whose result has the sub-key or not, and
\* whose sub-value decodes into the return type or not
Replies ==
    {[sent |-> FALSE, result |-> FALSE, key |-> FALSE, decodes |-> FALSE]} \cup
    {r \in [sent : {TRUE}, result : BOOLEAN, key : BOOLEAN, decodes : BOOLEAN] :
        /\ r.key => r.result
        /\ r.decodes => r.key}

\* call_sideswap_api!, lines 11-34
call_sideswap_api(reply) ==
    IF ~reply.sent THEN "Err"              \* map_err(...)? on call_method
    ELSE IF ~reply.result THEN "panic"     \* response.get("result").unwrap()
    ELSE IF ~reply.key THEN "Err"          \* None => Err("Missing result key")
    ELSE IF ~reply.decodes THEN "Err"      \* serde_json::from_value(...)?
    ELSE "Ok"

\* get_markets, start_quotes, get_quote_pset and sign_quote: one call through
\* the macro by a task that has not panicked; the operation hands the
\* macro's Ok or Err to its caller
MarketCall(op, reply) ==
    /\ Len(client_calls) < MaxClientCalls
    /\ \A i \in DOMAIN client_calls : client_calls[i].outcome # "panic"
    /\ client_calls' = Append(client_calls,
           [op |-> op, reply |-> reply, outcome |-> call_sideswap_api(reply)])
    /\ UNCHANGED <<txVars, rpcVars, payVars, depVars, priceVars, liquidityVars, swapVars, walletVars, sessionVars, mainVars>>

NextClient ==
    \E op \in {"list_markets", "start_quotes", "get_quote", "taker_sign"},
       reply \in Replies : MarketCall(op, reply)

SpecClient == Init /\ [][NextClient]_vars

\* ---------------------------------------------------------------------------
\* The venue connection of a swap handler: SideswapRequestHandler::new
\* (services/sideswap.rs 40-57) and SwapServiceImpl::new (mooze-swap
\* service.rs 29-48) connect, run SideswapClient::start and keep the client
\* whatever start returned
\* ---------------------------------------------------------------------------
MaxSessionCalls == 3

\* SideswapClient::new: JsonRpcClient::new connects to the venue
Connect(handler) ==
    /\ session.pc = "closed"
    /\ session' = [session EXCEPT !.pc = "login", !.handler = handler]
    /\ UNCHANGED <<txVars, rpcVars, payVars, depVars, priceVars, liquidityVars, swapVars, walletVars, clientVars, mainVars>>

\* SideswapClient::login inside start: call_method hands back the frame that
\* carries the request's id, a result or an error object alike, and login
\* returns Ok(()) without looking at it (a login never answered leaves start
\* waiting)
Login(reply) ==
    /\ session.pc = "login"
    /\ session' = [session EXCEPT !.pc = "markets", !.login = reply,
                                  !.sent = Append(@, "login")]
    /\ UNCHANGED <<txVars, rpcVars, payVars, depVars, priceVars, liquidityVars, swapVars, walletVars, clientVars, mainVars>>

\* SideswapClient::start, after login: get_markets; `let _ = client.start()`
\* drops its result, a panic of the macro ends the constructor
StartMarkets(reply) ==
    /\ session.pc = "markets"
    /\ session' = [session EXCEPT
           !.pc = IF call_sideswap_api(reply) = "panic" THEN "panicked"
                                                        ELSE "ready",
           !.sent = Append(@, "list_markets")]
    /\ UNCHANGED <<txVars, rpcVars, payVars, depVars, priceVars, liquidityVars, swapVars, walletVars, clientVars, mainVars>>

\* the market requests of a constructed handler: the dealer's start_quotes
\* (services/sideswap.rs 166 and 201) on a Swap request, the listener of
\* mooze-swap on a quote notification (finish_swap and proceed_with_quote)
HandlerRequests(handler) ==
    IF handler = "dealer" THEN {"list_markets", "start_quotes"}
                          ELSE {"get_quote", "taker_sign", "stop_quotes"}

SessionCall(op) ==
    /\ session.pc = "ready"
    /\ Len(session.sent) < 2 + MaxSessionCalls
    /\ op \in HandlerRequests(session.handler)
    /\ session' = [session EXCEPT !.sent = Append(@, op)]
    /\ UNCHANGED <<txVars, rpcVars, payVars, depVars, priceVars, liquidityVars, swapVars, walletVars, clientVars, mainVars>>

NextSession ==
    \/ \E handler \in {"dealer", "mooze_swap"} : Connect(handler)
    \/ \E reply \in {"result", "error"} : Login(reply)
    \/ \E reply \in {r \in Replies : r.sent} : StartMarkets(reply)
    \/ \E op \in HandlerRequests("dealer") \cup HandlerRequests("mooze_swap") :
          SessionCall(op)

SpecSession == Init /\ [][NextSession]_vars

\* ---------------------------------------------------------------------------
\* main of mooze-swap (mooze-swap/src/main.rs): SwapServiceImpl::new, then
\* start_notification_listener awaited on the main task, then the gRPC server.

\* main.rs lines 35-37 over service.rs new, lines 29-48: the channel is
\* created, its sender moves into the SideswapClient, the wallet client is
\* connected (expect panics on Err), start's result is discarded, and the
\* forwarding task spawned by the client's start_notification_listener
\* (service/sideswap.rs 75-89) holds a clone of the sender and loops for ever
NewService(wallet_ok) ==
    /\ swap_main.pc = "start"
    /\ swap_main' = IF wallet_ok
                    THEN [pc |-> "listening",
                          senders |-> {"sideswap_client", "forwarder"}]
                    ELSE [pc |-> "panicked", senders |-> {}]
    /\ UNCHANGED <<txVars, rpcVars, payVars, depVars, priceVars, liquidityVars, swapVars, walletVars, clientVars, sessionVars>>

\* the forwarding task sends a quote of the venue on the channel
StreamQuote(quote, sub) ==
    /\ "forwarder" \in swap_main.senders
    /\ DeliverQuote("mooze_swap", quote, sub)

\* main.rs line 38 over service.rs lines 50-59: `while let Some(n) =
\* notification_rx.recv().await`.  recv gives the oldest notification; it
\* gives None, which ends the loop and lets main go on to lines 39-46
\* (Server::builder ... serve), only when the channel is empty and every
\* sender is dropped; otherwise it waits
ListenerRecv ==
    /\ swap_main.pc = "listening"
    /\ IF /\ swap_main.senders = {}
          /\ \A k \in DOMAIN quote_tasks : quote_tasks[k].pc # "queued"
       THEN /\ swap_main' = [swap_main EXCEPT !.pc = "serving"]
            /\ UNCHANGED <<txVars, rpcVars, payVars, depVars, priceVars, liquidityVars, swapVars, walletVars, clientVars, sessionVars>>
       ELSE \E k \in 1..MaxQuotes : RecvNotification(k)

\* the steps of the main task once it is in the listener
MainTask ==
    \/ ListenerRecv
    \/ \E k \in 1..MaxQuotes : ProceedWithQuote(k)
    \/ \E k \in 1..MaxQuotes, outcome \in {"ok", "err", "panic"} :
          GetQuotePset(k, outcome)
    \/ \E k \in 1..MaxQuotes, ok \in BOOLEAN : WalletSignPset(k, ok)
    \/ \E k \in 1..MaxQuotes, outcome \in {"ok", "err", "panic"} :
          SignQuote(k, outcome)
    \/ \E k \in 1..MaxQuotes : StopQuotes(k)

NextMain ==
    \/ \E wallet_ok \in BOOLEAN : NewService(wallet_ok)
    \/ \E quote \in {"Success", "LowBalance", "Error"}, sub \in QuoteSubs :
          StreamQuote(quote, sub)
    \/ MainTask

\* the runtime keeps polling the main task while it can take a step
SpecMain == Init /\ [][NextMain]_vars /\ WF_vars(MainTask)

\* ---------------------------------------------------------------------------
\* Properties
\* ---------------------------------------------------------------------------
InWork(t) == Count(work, t) > 0

\* C1: finalize-and-broadcast succeeds at most once per transaction, whatever
\* the webhook deliveries and sweeps.
C1_AtMostOneBroadcast == \A t \in Txs : broadcasts[t] <= 1

\* C2: once the stored status is finished or failed, no status update
\* changes it.
C2_MonotoneStatus ==
    [][\A t \in Txs : status[t] \in {"finished", "failed"} => status'[t] = status[t]]_vars

\* C3: the pending-payout queue holds each transaction id at most once.
C3_QueueNoDuplicates == \A t \in Txs : Count(pending_transactions, t) <= 1

\* C4: every call receives exactly the frame that carries the id the call
\* generated; no call is handed a frame with another id, and no frame is
\* handed to two calls.
C4_Correlation ==
    /\ \A c \in Calls : slot[c] # NoFrame => slot[c].id = Uuid(c)
    /\ \A c \in Calls : call[c].pc = "ok" =>
          /\ call[c].got # NoFrame
          /\ call[c].got.id = Uuid(c)
    /\ \A c, d \in Calls : (c # d /\ slot[c] # NoFrame) => slot[c] # slot[d]

\* two calls were answered, the replies arriving in the reverse of the order
\* in which the requests were written
C4_Witness ==
    \E i, j \in DOMAIN wire : \E c, d \in Calls :
        /\ i < j /\ wire[i] = Uuid(c) /\ wire[j] = Uuid(d)
        /\ call[c].pc = "ok" /\ call[d].pc = "ok"
        /\ call[d].got.seq < call[c].got.seq

\* C5: notifications are handed out in the order the reader received them.
C5_NotificationsFifo ==
    \A i, j \in DOMAIN handed : i < j => handed[i] < handed[j]

\* C6: after the reader task has exited no call stays suspended on its reply.
C6_NoCallSuspendedAfterExit ==
    ~readerAlive => \A c \in Calls : call[c].pc # "waiting"

C9_WalletFailureRetried ==
    \A k \in Handlers :
        (task[k].pc = "done" /\ task[k].err = "wallet"
         /\ status[task[k].tx] = "eulen_depix_sent") =>
            (InQueue(task[k].tx) \/ InWork(task[k].tx))

\* C10: a stored status of finished implies a successful finalize-and-broadcast
\* of that transaction.
C10_FinishedOnlyAfterBroadcast ==
    \A t \in Txs : status[t] = "finished" => broadcasts[t] >= 1

\* one payout attempt of a transaction failed in the wallet, another one
\* broadcast it and wrote finished
C10_Witness ==
    \E t \in Txs :
        /\ status[t] = "finished" /\ broadcasts[t] >= 1
        /\ \E k \in Handlers : task[k].tx = t /\ task[k].err = "wallet"

\* C11: an UpdateTransactionStatus whose status is not eulen_depix_sent only
\* writes the status: its handler goes from the update straight to its end
\* with Ok, having pushed nothing on the pending-payout queue and sent no
\* inventory (price, user), wallet or swap request.
C11_OtherStatusOnlyWritesStatus ==
    \A k \in Handlers :
        (task[k].pc # "none" /\ task[k].st # "eulen_depix_sent") =>
            /\ task[k].pc \in {"update", "done"}
            /\ task[k].enq = 0
            /\ task[k].swp = 0
            /\ task[k].wal = 0
            /\ ~task[k].low
            /\ (task[k].pc = "done" =>
                   task[k].result = "Ok" /\ task[k].err = "none")

C11_Witness ==
    \E k \in Handlers :
        /\ task[k].pc = "done"
        /\ task[k].st = "eulen_expired"
        /\ status[task[k].tx] = "eulen_expired"

\* C12: for every amount in [1, 500000] cents and price in [1, 10^7] cents,
\* with or without a referral, the fee is strictly less than the gross asset
\* amount.
C12_FeeBelowGross ==
    (/\ payout.pc \notin {"idle", "price", "referral", "amounts", "queued",
                       "hint_panicked"}
     /\ payout.amount_in_cents \in 1..500000
     /\ payout.asset_price_in_cents \in 1..10000000) =>
        U64Less(payout.fee_in_asset, payout.asset_amount)

\* C13: for every amount in [1, 500000] cents and price in [1, 10^7] cents,
\* the amount sent to the user plus the referral bonus plus the fee is the
\* gross asset amount.
C13_AmountsAddUp ==
    (/\ payout.pc \in {"build", "sign", "finalize", "finish", "finished", "failed"}
     /\ payout.amount_in_cents \in 1..500000
     /\ payout.asset_price_in_cents \in 1..10000000) =>
        Plus(Plus(payout.amount_to_send_user, payout.referral_bonus),
             payout.fee_in_asset) = payout.asset_amount

\* C14: the fee is the tiered ladder: 200 * 10^8 / price below 5500 cents,
\* then 350, 325 and 275 basis points below 50000, below 500000 and from
\* 500000 cents (fiat * bps * 10^8 / 10000 / price, multiplication first),
\* minus fiat * 50 * 10^8 / 10000 / price when the user has a referrer.
C14_FeeLadder ==
    payout.pc \notin {"idle", "price", "referral", "amounts", "queued",
                       "hint_panicked"} =>
        LET fiat == payout.amount_in_cents
            price == payout.asset_price_in_cents
            bps == IF fiat < 50000 THEN 350
                   ELSE IF fiat < 500000 THEN 325 ELSE 275
            ladder == IF fiat < 5500
                      THEN U64Div(U64Mul(U64(200), 100000000), price)
                      ELSE U64Div(U64Div(U64Mul(U64Mul(U64(fiat), bps),
                                                100000000), 10000), price)
            discount == U64Div(U64Div(U64Mul(U64Mul(U64(fiat), 50),
                                             100000000), 10000), price)
        IN  /\ payout.referral_addr = NoAddress => payout.fee_in_asset = ladder
            /\ payout.referral_addr # NoAddress =>
                   Plus(payout.fee_in_asset, discount) = ladder

C14_Witness ==
    /\ payout.pc = "build"
    /\ payout.amount_in_cents = 49999
    /\ payout.asset_price_in_cents = 12345
    /\ payout.referral_addr # NoAddress

\* C15 as stated (S1): a DEPIX payout of 10000 cents at price 1.0 without a
\* referrer has a fee of 325 * 10^6, sends 10^10 - 325 * 10^6 to the user,
\* signs and broadcasts once and ends finished.
C15_S1Fee325 ==
    (/\ payout.pc = "finished"
     /\ payout.amount_in_cents = 10000
     /\ payout.asset = "DEPIX"
     /\ payout.referrer = "none") =>
        /\ payout.asset_price_in_cents = 100
        /\ payout.fee_in_asset = U64(325000000)
        /\ payout.recipients =
               <<[address |-> UserAddress,
                  satoshi |-> U64Mul(U64(96750), 100000),
                  asset |-> "DEPIX"]>>
        /\ payout.signs = 1
        /\ payout.broadcasts = 1
        /\ payout.status = "finished"

\* C15, amended (S1): a DEPIX payout of 10000 cents at price 1.0 without a
\* referrer has a fee of 350 * 10^6 (the 3.50% tier), sends
\* 10^10 - 350 * 10^6 to the user, signs and broadcasts once and ends finished.
C15_S1Fee350 ==
    (/\ payout.pc = "finished"
     /\ payout.amount_in_cents = 10000
     /\ payout.asset = "DEPIX"
     /\ payout.referrer = "none") =>
        /\ payout.asset_price_in_cents = 100
        /\ payout.fee_in_asset = U64(350000000)
        /\ payout.recipients =
               <<[address |-> UserAddress,
                  satoshi |-> U64Mul(U64(96500), 100000),
                  asset |-> "DEPIX"]>>
        /\ payout.signs = 1
        /\ payout.broadcasts = 1
        /\ payout.status = "finished"

C15_Witness ==
    /\ payout.pc = "finished"
    /\ payout.amount_in_cents = 10000
    /\ payout.asset = "DEPIX"
    /\ payout.referrer = "none"
    /\ payout.asset_price_in_cents = 100

C17_TierCap ==
    \A r \in Deposits :
        deposit[r].pc \in {"pix", "done", "panicked"} /\ deposit[r].error # "wallet" =>
            LET c == deposit[r].transaction_count
                a == deposit[r].amount_in_cents
            IN  /\ (\A i \in DOMAIN transactions :
                        transactions[i].status = "pending") =>
                       c = Cardinality({i \in DOMAIN Table :
                               /\ Table[i].user_id = deposit[r].user_id
                               /\ Table[i].status = "eulen_depix_sent"})
                /\ (deposit[r].error = "ExceededAllowedTransactionAmount") <=>
                       \/ c = 0 /\ a > 25000
                       \/ c = 1 /\ a > 75000
                       \/ c = 2 /\ a > 150000

C17_Witness ==
    \E r \in Deposits :
        /\ deposit[r].pc = "done"
        /\ deposit[r].user_id = 2
        /\ deposit[r].amount_in_cents = 150001
        /\ deposit[r].error = "ExceededAllowedTransactionAmount"

\* C18: with D the user's spending of today at eulen_depix_sent, an insert
\* of any amount above 500000 - D is refused with ExceededDailyAmount (or,
\* when the tier check that comes first refuses it, with that check's error).
C18_DailyCap ==
    \A r \in Deposits :
        (/\ deposit[r].pc \in {"pix", "done", "panicked"}
         /\ deposit[r].error # "wallet"
         /\ deposit[r].amount_in_cents > 500000 - deposit[r].daily_spending) =>
            deposit[r].error \in {"ExceededDailyAmount",
                                  "ExceededAllowedTransactionAmount"}

\* C19: a NewTransaction refused for the tier cap or the daily cap has
\* inserted no transaction row and requested no Pix deposit, and returns an
\* error.
C19_RejectedLeavesNothing ==
    \A r \in Deposits :
        deposit[r].error \in {"ExceededAllowedTransactionAmount",
                              "ExceededDailyAmount"} =>
            /\ \A i \in DOMAIN transactions : transactions[i].by # r
            /\ \A j \in DOMAIN pix_requests : pix_requests[j].by # r
            /\ deposit[r].pc = "done"
            /\ deposit[r].result = "Err"

C19_Witness ==
    \E r \in Deposits :
        /\ deposit[r].pc = "done"
        /\ deposit[r].error = "ExceededDailyAmount"
        /\ deposit[r].user_id = 3
        /\ deposit[r].amount_in_cents = 425001

\* C20: after NewTransaction succeeds for a user_id that had no user row, the
\* inserted transaction's user_id is the id of an existing user.
C20_InsertedUserExists ==
    \A r \in Deposits :
        (/\ deposit[r].pc = "done"
         /\ deposit[r].result = "Ok"
         /\ ~deposit[r].user_found) =>
            \A i \in DOMAIN transactions :
                transactions[i].by = r => transactions[i].user_id \in users

\* C21: once NewTransaction has completed, with success or with an error,
\* every transaction row it inserted has exactly one row of pix_transactions,
\* and every row of pix_transactions belongs to an inserted transaction.
C21_OneToOne ==
    \A r \in Deposits :
        deposit[r].pc = "done" =>
            /\ \A i \in DOMAIN transactions :
                   transactions[i].by = r =>
                       Cardinality({j \in DOMAIN pix_transactions :
                           pix_transactions[j].transaction_id = r}) = 1
            /\ \A j \in DOMAIN pix_transactions :
                   pix_transactions[j].transaction_id = r =>
                       \E i \in DOMAIN transactions : transactions[i].by = r

\* C22: after a price tick in which Binance failed and Coingecko returned a
\* bitcoin price p, the cache holds p for L-BTC and the read with spread of
\* L-BTC returns p * 1.02.
C22_OtherSourcePublished ==
    (/\ price_tick.pc \in {"done", "panicked"}
     /\ price_tick.coingecko.ok
     /\ price_tick.coingecko.bitcoin # None
     /\ ~price_tick.binance.ok
     /\ price_tick.result # "none") =>
        /\ price_cache.bitcoin = price_tick.coingecko.bitcoin
        /\ get_asset_price_with_spread("LBTC") =
               [asset |-> "LBTC", ok |-> TRUE,
                hundredths |-> price_tick.coingecko.bitcoin * 102]

\* C23: after a price tick in which neither source yielded a bitcoin price,
\* or neither yielded a usdt price, the cached price of that asset is the one
\* cached before the tick.
C23_EmptyKeepsPrior ==
    price_tick.pc \in {"done", "panicked"} =>
        /\ (price_tick.coingecko.bitcoin = None
            /\ price_tick.binance.bitcoin = None) =>
               price_cache.bitcoin = price_tick.before.bitcoin
        /\ (price_tick.coingecko.usdt = None
            /\ price_tick.binance.usdt = None) =>
               price_cache.usdt = price_tick.before.usdt

\* C24: a handled UpdateAssetAmount message has emitted exactly one
\* Swap{sell = DEPIX, receive = L-BTC, amount = amount - ceiling} when its
\* asset is DEPIX and its amount is above the ceiling, and no Swap otherwise.
C24_SwapAboveCeiling ==
    \A k \in DOMAIN liquidity_tasks :
        LET m == liquidity_tasks[k]
            emitted == {j \in DOMAIN sideswap_channel :
                            sideswap_channel[j].by = k}
        IN  m.pc = "done" =>
                IF m.asset_id = "DEPIX" /\ U64Less(depix_max_amount, m.amount)
                THEN /\ Cardinality(emitted) = 1
                     /\ \A j \in emitted :
                           /\ sideswap_channel[j].sell_asset = "DEPIX"
                           /\ sideswap_channel[j].receive_asset = "LBTC"
                           /\ sideswap_channel[j].amount =
                                  [negative |-> FALSE,
                                   magnitude |-> Minus(m.amount,
                                                       depix_max_amount)]
                ELSE emitted = {}

C24_Witness ==
    \E k \in DOMAIN liquidity_tasks, j \in DOMAIN sideswap_channel :
        /\ liquidity_tasks[k].pc = "done"
        /\ liquidity_tasks[k].asset_id = "DEPIX"
        /\ liquidity_tasks[k].amount = U64Mul(U64(150000), 100000)
        /\ sideswap_channel[j].by = k
        /\ sideswap_channel[j].amount.magnitude = U64Mul(U64(50000), 100000)

\* C25: a Success quote notification whose handling has ended without a
\* failed call has made a get_quote call, then a wallet Sign call on the
\* returned PSET, then a taker_sign call carrying the signed PSET; and a
\* taker_sign call is only ever made after get_quote and Sign succeeded.
C25_SuccessSignsInOrder ==
    \A k \in DOMAIN quote_tasks :
        LET t == quote_tasks[k]
            calls == SelectSeq(swap_calls, LAMBDA c : c.by = k)
        IN  t.status = "Success" =>
                /\ (t.pc = "done" /\ t.failed = "none") =>
                       /\ Len(calls) >= 3
                       /\ calls[1].call = "get_quote"
                       /\ calls[2].call = "Sign"
                       /\ calls[2].pset = QuotePset(t.quote_id)
                       /\ calls[3].call = "taker_sign"
                       /\ calls[3].pset = <<"signed", QuotePset(t.quote_id)>>
                /\ \A i \in DOMAIN calls :
                       calls[i].call = "taker_sign" =>
                           /\ t.failed \notin {"get_quote", "sign"}
                           /\ i = 3
                           /\ calls[1].call = "get_quote"
                           /\ calls[2].call = "Sign"

\* C26: a LowBalance or Error quote notification whose handling has ended has
\* made a stop_quotes call, and its handling makes no wallet Sign call and no
\* taker_sign call (no handler has a broadcast call to make).
C26_FailureStopsQuotes ==
    \A k \in DOMAIN quote_tasks :
        LET t == quote_tasks[k]
            calls == SelectSeq(swap_calls, LAMBDA c : c.by = k)
        IN  t.status \in {"LowBalance", "Error"} =>
                /\ t.pc = "done" =>
                       \E i \in DOMAIN calls : calls[i].call = "stop_quotes"
                /\ \A i \in DOMAIN calls : calls[i].call = "stop_quotes"

\* C27: the allowed spending answered for a user is 25000, 75000 or 150000
\* cents minus today's confirmed spending when the user has 0, 1 or 2
\* confirmed payouts, and 500000 cents minus today's confirmed spending when
\* the user has 3 or more.
C27_AllowedSpending ==
    user_details.id # -1 =>
        LET cap == U64(CASE user_details.transaction_count = 0 -> 250 * 100
                         [] user_details.transaction_count = 1 -> 750 * 100
                         [] user_details.transaction_count = 2 -> 1500 * 100
                         [] OTHER -> 5000 * 100)
            daily == user_details.daily_spending
        IN  user_details.allowed_spending =
                IF U64Less(cap, daily)
                THEN [negative |-> TRUE, magnitude |-> Minus(daily, cap)]
                ELSE [negative |-> FALSE, magnitude |-> Minus(cap, daily)]

\* C28: the TransactionService handles its messages in arrival order: when
\* the handling of a message has had an effect (its status write, or any
\* later step), the handling of every message received before it has ended.
C28_ArrivalOrder ==
    \A k1 \in Handlers, k2 \in Handlers :
        (k1 < k2 /\ task[k2].pc \notin {"none", "update"}) =>
            task[k1].pc = "done"

\* C29: at most one wallet request is being executed at any time, and no two
\* BuildTransaction requests have built their PSETs over the same unspent
\* output.
C29_WalletSerialized ==
    /\ Cardinality(Reading) <= 1
    /\ \A k1 \in DOMAIN wallet_tasks, k2 \in DOMAIN wallet_tasks :
           (/\ k1 # k2
            /\ wallet_tasks[k1].kind = "BuildTransaction"
            /\ wallet_tasks[k2].kind = "BuildTransaction"
            /\ wallet_tasks[k1].pc = "done"
            /\ wallet_tasks[k2].pc = "done") =>
               wallet_tasks[k1].inputs \cap wallet_tasks[k2].inputs = {}

\* C30: no market call panics its task, and a call whose reply has no result
\* field, lacks the sub-key of the action, or carries a sub-value that does
\* not decode returns an error to its caller.
C30_MalformedReplyIsError ==
    \A i \in DOMAIN client_calls :
        LET c == client_calls[i]
        IN  /\ c.outcome # "panic"
            /\ (c.reply.sent /\ ~c.reply.decodes) => c.outcome = "Err"

\* C31: on a venue connection a market request is sent only after a login
\* request that was sent earlier on that connection and completed successfully
C31_LoginBeforeMarket ==
    \A i \in DOMAIN session.sent :
        session.sent[i] # "login" =>
            /\ session.login = "result"
            /\ \E j \in 1..(i - 1) : session.sent[j] = "login"

\* C32: the swap hint sent on insufficient inventory sells DEPIX for the
\* transaction's asset, and its amount is (amount_in_cents - 100) * 10^6,
\* non-negative and computed without wrap-around, for every amount_in_cents
\* of at least 1
C32_SwapHintAmount ==
    (payout.pc \in {"queued", "hint_panicked"} /\ payout.amount_in_cents >= 1) =>
        /\ ~payout.hint.overflow
        /\ payout.hint.sent
        /\ payout.hint.sell_asset = "DEPIX"
        /\ payout.hint.receive_asset = payout.asset
        /\ ~payout.hint.amount.negative
        /\ payout.amount_in_cents >= 100
        /\ payout.hint.amount.magnitude =
               U64Mul(U64(payout.amount_in_cents - 100), 1000000)

\* C33: the mutex of the pending-payout queue is held only while an entry is
\* pushed or popped: no task holds it while it waits on a channel send or
\* receive, a repository call or a wallet call
C33_QueueLockNotAcrossAwait ==
    \A k \in Tasks :
        lock = k =>
            task[k].pc \notin {"swap", "cwt_check", "check", "build", "sign",
                               "finalize", "finish", "update"}

\* C34: the reader fulfils and removes the reply slot when the id string of a
\* frame matches a registered slot, and appends every other parsed frame to
\* the notification queue, a frame whose id matches no registered slot
\* included
C34_ReaderRoutesEveryFrame ==
    [][\A id \in {Uuid(c) : c \in Calls} \cup {UnknownId} :
          ReadResponse(id) =>
              IF id \in DOMAIN pending_requests
              THEN /\ pending_requests' = MapRemove(pending_requests, id)
                   /\ slot'[pending_requests[id]].id = id
                   /\ notifications' = notifications
              ELSE notifications' = Append(notifications, frames + 1)]_vars

\* C35: every notification frame the reader appends to the queue is eventually
\* returned by wait_for_notification to a consumer that keeps waiting, also
\* when no further frame arrives
C35_NotificationDelivered ==
    \A n \in 1..MaxFrames :
        (\E i \in DOMAIN notifications : notifications[i] = n)
            ~> (\E i \in DOMAIN handed : handed[i] = n)

\* C36: a payout is built only after the inventory check has positively
\* confirmed a sufficient balance; when the check itself fails, that attempt
\* sends no BuildTransaction request.  An attempt goes from its inventory
\* check on to the build (the price, the fee and the BuildTransaction request
\* of continue_with_transaction) only with a balance that covers the amount:
\* with a lower balance a check that answers says Ok(false)
C36_BuildOnlyAfterPositiveCheck ==
    [][\A k \in Tasks :
          (task[k].pc = "cwt_check" /\ task'[k].pc = "build") =>
              HasSufficientBalance(task[k].tx, balance)]_vars

\* C37: for every user, the amounts of the user's transactions of the day
\* whose funds were confirmed (rows at eulen_depix_sent, and rows that went
\* on to finished) never add up to more than 500000 cents, whatever the
\* interleaving of deposit requests, webhooks and payouts
C37_DailyConfirmedCap ==
    \A u \in KnownUsers \cup {MissingUser} :
        ~U64Less(U64(5000 * 100),
                 SumAmounts({i \in RowsOf(u) :
                     /\ Table[i].today
                     /\ Table[i].status \in {"eulen_depix_sent", "finished"}}))

\* C38 as stated: for every amount in [1, 500000] cents and every price the
\* price source gives, the fee_collected written to the row is the fee
\* calculate_fee_amount returned: `as i32` leaves the value unchanged.
C38_FeeCollectedIsFee ==
    (/\ payout.pc \notin {"idle", "price", "referral", "amounts", "queued",
                          "hint_panicked"}
     /\ payout.amount_in_cents \in 1..500000) =>
        /\ payout.fee_collected >= 0
        /\ U64(payout.fee_collected) = payout.fee_in_asset

\* C39 as stated: among the notifications of one quote subscription that the
\* venue streamed to mooze-swap before quoting was stopped, the handling of at
\* most one submits taker_sign, however many of them are Success.
C39_OneTakerSignPerSubscription ==
    \A c, d \in DOMAIN swap_calls :
        LET t == quote_tasks[swap_calls[c].by]
            u == quote_tasks[swap_calls[d].by]
        IN  (/\ swap_calls[c].call = "taker_sign"
             /\ swap_calls[d].call = "taker_sign"
             /\ t.handler = "mooze_swap" /\ u.handler = "mooze_swap"
             /\ ~t.after_stop /\ ~u.after_stop
             /\ t.quote_sub_id = u.quote_sub_id) => c = d

\* C40 as stated: once the service is constructed and main has reached the
\* listener, main eventually serves the gRPC endpoint.
C40_EventuallyServes ==
    (swap_main.pc = "listening") ~> (swap_main.pc = "serving")

====
